---- MODULE Spec2Model ----
(***************************************************************************)
(* Model of the lox-ast tree-walking interpreter: runtime values           *)
(* (object.rs), scopes (environment.rs), the recursive-descent parser      *)
(* (parser.rs), the evaluator (interpreter.rs), user functions             *)
(* (function.rs, callable.rs) and the driver's run (main.rs).              *)
(*                                                                         *)
(* Reference-counted cells (Rc<RefCell<Environment>>, Rc<dyn LoxCallable>) *)
(* are modelled as indices into the heaps `envs` and `funcs`; pointer      *)
(* identity is index equality.  f64 numbers are modelled as normalised     *)
(* rationals n/d.                                                          *)
(***************************************************************************)
EXTENDS Integers, Sequences, FiniteSets, TLC

VARIABLES
    envs,           \* heap of Environment cells; index 1 is Interpreter.globals
    funcs,          \* heap of callables (Rc<dyn LoxCallable>); index 1 is NativeClock
    environment,    \* Interpreter.environment: index of the current scope
    nesting_level,  \* Interpreter.nesting_level
    locals,         \* Interpreter.locals: expression node id -> distance
    runs,           \* number of Lox::run calls made on this interpreter
    last,           \* record of the last Lox::run: program, flag, outcome, output
    tokens,         \* token list handed to the parser (without the final Eof)
    parsed,         \* what Parser::expression made of `tokens`
    op              \* record of the last direct call of an Environment / visitor method

vars == <<envs, funcs, environment, nesting_level, locals, runs, last, tokens, parsed, op>>

(***************************************************************************)
(* Bounds of the model.                                                    *)
(***************************************************************************)
MaxScopes == 2
MaxRuns == 2
MaxIter == 6
MaxTokens == 5
MaxProgramTokens == 16

(***************************************************************************)
(* object.rs: the runtime value, a tagged union.  One record shape for     *)
(* every tag: n/d is the number (or the callable's heap index in n),       *)
(* s the string.                                                           *)
(***************************************************************************)
Abs(x) == IF x < 0 THEN 0 - x ELSE x

RECURSIVE Gcd(_, _)
Gcd(a, b) == IF b = 0 THEN a ELSE Gcd(b, a % b)

Nil == [tag |-> "nil", n |-> 0, d |-> 1, s |-> ""]

Bool(b) == [tag |-> "bool", n |-> IF b THEN 1 ELSE 0, d |-> 1, s |-> ""]

String(str) == [tag |-> "string", n |-> 0, d |-> 1, s |-> str]

Func(id) == [tag |-> "function", n |-> id, d |-> 1, s |-> ""]

\* Object::Number(f64): the rational num/den in lowest terms, den > 0.
Number(num, den) ==
    LET g == Gcd(Abs(num), Abs(den))
        sg == IF den < 0 THEN 0 - 1 ELSE 1
    IN  [tag |-> "number", n |-> (sg * num) \div g, d |-> Abs(den) \div g, s |-> ""]

Num(k) == Number(k, 1)

GetTypeUntagged(o) == "object"

get_type(o) == o.tag

(***************************************************************************)
(* token.rs: Token { ttype, lexeme, literal, line }.                       *)
(***************************************************************************)
NoLiteral == [tag |-> "none", n |-> 0, d |-> 1, s |-> ""]

Token(ttype, lexeme, literal) ==
    [ttype |-> ttype, lexeme |-> lexeme, literal |-> literal, line |-> 1]

Ident(name) == Token("Identifier", name, NoLiteral)

(***************************************************************************)
(* error.rs: LoxResult.  Every constructor but Break and ReturnValue       *)
(* reports to stderr when the value is built.                              *)
(***************************************************************************)
NoToken == Token("None", "", NoLiteral)

Ok(v) == [kind |-> "Ok", value |-> v, token |-> NoToken, message |-> ""]

runtime_error(tok, msg) ==
    [kind |-> "RuntimeError", value |-> Nil, token |-> tok, message |-> msg]

GenericError(msg) ==
    [kind |-> "GenericError", value |-> Nil, token |-> NoToken, message |-> msg]

pares_error(tok, msg) ==
    [kind |-> "ParseError", value |-> Nil, token |-> tok, message |-> msg]

Break == [kind |-> "Break", value |-> Nil, token |-> NoToken, message |-> ""]

return_value(v) == [kind |-> "ReturnValue", value |-> v, token |-> NoToken, message |-> ""]

\* LoxResult::report prints for every kind but Break and ReturnValue.
Reports(r) == r.kind \in {"RuntimeError", "GenericError", "ParseError", "SystemError"}

(***************************************************************************)
(* environment.rs: a scope is a name -> value map and an optional link     *)
(* to the enclosing scope (0 models None).  The operations take the heap   *)
(* and the index of the scope they are called on.                          *)
(***************************************************************************)
EmptyMap == [x \in {} |-> Nil]

Environment_new == [values |-> EmptyMap, enclosing |-> 0]

new_with_enclosing(enclosing) == [values |-> EmptyMap, enclosing |-> enclosing]

\* HashMap::insert: adds the key or replaces its value.
MapInsert(m, k, v) == [x \in (DOMAIN m) \cup {k} |-> IF x = k THEN v ELSE m[x]]

DefineKeepsFirst(h, e, name, value) ==
    IF name \in DOMAIN h[e].values THEN h
    ELSE [h EXCEPT ![e].values = MapInsert(@, name, value)]

define(h, e, name, value) ==
    [h EXCEPT ![e].values = MapInsert(@, name, value)]

RECURSIVE get(_, _, _)
GetOutermostFirst(h, e, name) ==
    LET outer == IF h[e].enclosing # 0 THEN get(h, h[e].enclosing, name)
                 ELSE runtime_error(name, "Undefined variable")
    IN  IF outer.kind = "Ok" THEN outer
        ELSE IF name.lexeme \in DOMAIN h[e].values THEN Ok(h[e].values[name.lexeme])
        ELSE outer

get(h, e, name) ==
    IF name.lexeme \in DOMAIN h[e].values
    THEN Ok(h[e].values[name.lexeme])
    ELSE IF h[e].enclosing # 0
         THEN get(h, h[e].enclosing, name)
         ELSE runtime_error(name, "Undefined variable")

\* Returns the heap after the call and the call's result.
RECURSIVE assign(_, _, _, _)
AssignDefinesWhenMissing(h, e, name, value) ==
    IF name.lexeme \in DOMAIN h[e].values \/ h[e].enclosing = 0
    THEN [envs |-> [h EXCEPT ![e].values = MapInsert(@, name.lexeme, value)],
          res |-> Ok(Nil)]
    ELSE assign(h, h[e].enclosing, name, value)

assign(h, e, name, value) ==
    IF name.lexeme \in DOMAIN h[e].values
    THEN [envs |-> [h EXCEPT ![e].values = MapInsert(@, name.lexeme, value)],
          res |-> Ok(Nil)]
    ELSE IF h[e].enclosing # 0
         THEN assign(h, h[e].enclosing, name, value)
         ELSE [envs |-> h, res |-> runtime_error(name, "Undefined variable")]

\* unwrap() of None panics: the "Panic" outcome.
Panic == [kind |-> "Panic", value |-> Nil, token |-> NoToken, message |-> "unwrap on None"]

RECURSIVE get_at(_, _, _, _)
GetAtGlobals(h, e, distance, name) ==
    IF name \in DOMAIN h[1].values THEN Ok(h[1].values[name]) ELSE Panic

get_at(h, e, distance, name) ==
    IF distance = 0
    THEN IF name \in DOMAIN h[e].values THEN Ok(h[e].values[name]) ELSE Panic
    ELSE IF h[e].enclosing # 0
         THEN get_at(h, h[e].enclosing, distance - 1, name)
         ELSE Panic

RECURSIVE assign_at(_, _, _, _, _)
AssignAtNearest(h, e, distance, name, value) ==
    IF name.lexeme \in DOMAIN h[e].values \/ h[e].enclosing = 0
    THEN [envs |-> [h EXCEPT ![e].values = MapInsert(@, name.lexeme, value)],
          res |-> Ok(Nil)]
    ELSE assign_at(h, h[e].enclosing, distance, name, value)

assign_at(h, e, distance, name, value) ==
    IF distance = 0
    THEN [envs |-> [h EXCEPT ![e].values = MapInsert(@, name.lexeme, value)],
          res |-> Ok(Nil)]
    ELSE IF h[e].enclosing # 0
         THEN assign_at(h, h[e].enclosing, distance - 1, name, value)
         ELSE [envs |-> h, res |-> Panic]

(***************************************************************************)
(* object.rs, impl Display for Object: the text `print` shows.             *)
(***************************************************************************)
Digits == <<"0", "1", "2", "3", "4", "5", "6", "7", "8", "9">>

RECURSIVE NatStr(_)
NatStr(k) == IF k < 10 THEN Digits[k + 1] ELSE NatStr(k \div 10) \o Digits[(k % 10) + 1]

\* the fractional digits of r/d, at most k of them
RECURSIVE FracStr(_, _, _)
FracStr(r, d, k) ==
    IF r = 0 \/ k = 0 THEN ""
    ELSE Digits[((r * 10) \div d) + 1] \o FracStr((r * 10) % d, d, k - 1)

NumberToString(o) ==
    (IF o.n < 0 THEN "-" ELSE "")
    \o NatStr(Abs(o.n) \div o.d)
    \o (IF Abs(o.n) % o.d = 0 THEN "" ELSE "." \o FracStr(Abs(o.n) % o.d, o.d, 16))

to_string(o) ==
    CASE o.tag = "string" -> o.s
      [] o.tag = "number" -> NumberToString(o)
      [] o.tag = "nil" -> "nil"
      [] o.tag = "bool" -> IF o.n = 1 THEN "true" ELSE "false"
      [] OTHER -> "function"

\* format!("{:?}", String): the text between double quotes.
DebugString(str) == "\"" \o str \o "\""

(***************************************************************************)
(* object.rs, impl PartialOrd for Object, used by > < >= <= on operands    *)
(* of one tag.  Cmp is -1 (Less), 0 (Equal), 1 (Greater), 2 (None).        *)
(* Strings are ordered over the literals of the model, StringOrder.        *)
(***************************************************************************)
StringOrder == <<"", "1", "a", "a1", "b">>

StringRank(str) == CHOOSE i \in 1..Len(StringOrder) : StringOrder[i] = str

IntCmp(a, b) == IF a < b THEN 0 - 1 ELSE IF a = b THEN 0 ELSE 1

partial_cmp(l, r) ==
    CASE l.tag = "number" /\ r.tag = "number" -> IntCmp(l.n * r.d, r.n * l.d)
      [] l.tag = "string" /\ r.tag = "string" -> IntCmp(StringRank(l.s), StringRank(r.s))
      [] l.tag = "bool" /\ r.tag = "bool" -> IntCmp(l.n, r.n)
      [] l.tag = "nil" /\ r.tag = "nil" -> 0
      [] l.tag = "nil" /\ r.tag # "nil" -> 0 - 1
      [] l.tag # "nil" /\ r.tag = "nil" -> 1
      [] OTHER -> 2

\* derive(PartialEq) on Object; callables compare by Rc pointer (callable.rs).
ObjectEq(l, r) == l.tag = r.tag /\ l.n = r.n /\ l.d = r.d /\ l.s = r.s

(***************************************************************************)
(* interpreter.rs: is_truthy, and visit_binary_expr / visit_unary_expr     *)
(* once the operands are evaluated.                                        *)
(***************************************************************************)
is_truthy(o) == ~(o.tag = "nil" \/ (o.tag = "bool" /\ o.n = 0))

DifferentTypes == GenericError("invalid expression:operands are different types")

SlashNoZeroCheck(l, r) ==
    IF l.tag = "number" /\ r.tag = "number"
    THEN IF r.n = 0 THEN Ok(Num(0)) ELSE Ok(Number(l.n * r.d, l.d * r.n))
    ELSE GenericError("invalid expression:operands must be numbers")

binary_slash(l, r) ==
    IF l.tag = "number" /\ r.tag = "number"
    THEN IF r.n = 0
         THEN GenericError("division by zero")
         ELSE Ok(Number(l.n * r.d, l.d * r.n))
    ELSE GenericError("invalid expression:operands must be numbers")

PlusNoCoercion(l, r) ==
    CASE l.tag = "number" /\ r.tag = "number" -> Ok(Number(l.n * r.d + r.n * l.d, l.d * r.d))
      [] l.tag = "string" /\ r.tag = "string" -> Ok(String(l.s \o r.s))
      [] OTHER -> GenericError("invalid expression:operands must be two numbers or two strings")

binary_plus(l, r) ==
    CASE l.tag = "number" /\ r.tag = "number" -> Ok(Number(l.n * r.d + r.n * l.d, l.d * r.d))
      [] l.tag = "string" /\ r.tag = "number" -> Ok(String(l.s \o NumberToString(r)))
      [] l.tag = "number" /\ r.tag = "string" -> Ok(String(NumberToString(l) \o r.s))
      [] l.tag = "string" /\ r.tag = "string" -> Ok(String(l.s \o r.s))
      [] OTHER -> GenericError("invalid expression:operands must be two numbers or two strings")

binary_op(operator, l, r) ==
    CASE operator.ttype = "Minus" ->
            IF l.tag = "number" /\ r.tag = "number"
            THEN Ok(Number(l.n * r.d - r.n * l.d, l.d * r.d))
            ELSE GenericError("invalid expression: operands must be two numbers")
      [] operator.ttype = "Plus" -> binary_plus(l, r)
      [] operator.ttype = "Slash" -> binary_slash(l, r)
      [] operator.ttype = "Star" ->
            IF l.tag = "number" /\ r.tag = "number"
            THEN Ok(Number(l.n * r.n, l.d * r.d))
            ELSE GenericError("invalid expression:operands must be numbers")
      [] operator.ttype = "Greater" ->
            IF get_type(l) # get_type(r) THEN DifferentTypes
            ELSE Ok(Bool(partial_cmp(l, r) = 1))
      [] operator.ttype = "Less" ->
            IF get_type(l) # get_type(r) THEN DifferentTypes
            ELSE Ok(Bool(partial_cmp(l, r) = 0 - 1))
      [] operator.ttype = "GreaterEqual" ->
            IF get_type(l) # get_type(r) THEN DifferentTypes
            ELSE Ok(Bool(partial_cmp(l, r) \in {0, 1}))
      [] operator.ttype = "LessEqual" ->
            IF get_type(l) # get_type(r) THEN DifferentTypes
            ELSE Ok(Bool(partial_cmp(l, r) \in {0 - 1, 0}))
      [] operator.ttype = "BangEqual" ->
            IF get_type(l) # get_type(r) THEN DifferentTypes
            ELSE Ok(Bool(~ObjectEq(l, r)))
      [] operator.ttype = "EqualEqual" ->
            IF get_type(l) # get_type(r) THEN DifferentTypes
            ELSE Ok(Bool(ObjectEq(l, r)))
      [] OTHER -> runtime_error(operator, "invalid operator")

BangYieldsNumber(operator, r) ==
    CASE operator.ttype = "Minus" ->
            IF r.tag = "number" THEN Ok(Number(0 - r.n, r.d))
            ELSE GenericError("Operand must be a number")
      [] operator.ttype = "Bang" -> Ok(Num(IF is_truthy(r) THEN 0 ELSE 1))
      [] OTHER -> GenericError("unreachable")

unary_op(operator, r) ==
    CASE operator.ttype = "Minus" ->
            IF r.tag = "number" THEN Ok(Number(0 - r.n, r.d))
            ELSE GenericError("Operand must be a number")
      [] operator.ttype = "Bang" -> Ok(Bool(~is_truthy(r)))
      [] OTHER -> GenericError("unreachable")

(***************************************************************************)
(* expr.rs / stmt.rs: the syntax tree.  `id` is the identity of a          *)
(* Variable or Assign node (its Rc pointer), the key of Interpreter.locals.*)
(* NoneNode models Option::None for an optional child.                     *)
(***************************************************************************)
NoneNode == [type |-> "None"]

LiteralExpr(value) == [type |-> "Literal", value |-> value]

GroupingExpr(expression) == [type |-> "Grouping", expression |-> expression]

UnaryExpr(operator, right) == [type |-> "Unary", operator |-> operator, right |-> right]

BinaryExpr(left, operator, right) ==
    [type |-> "Binary", left |-> left, operator |-> operator, right |-> right]

LogicalExpr(left, operator, right) ==
    [type |-> "Logical", left |-> left, operator |-> operator, right |-> right]

VariableExpr(name, id) == [type |-> "Variable", name |-> name, id |-> id]

AssignExpr(name, value, id) == [type |-> "Assign", name |-> name, value |-> value, id |-> id]

CallExpr(callee, paren, arguments) ==
    [type |-> "Call", callee |-> callee, paren |-> paren, arguments |-> arguments]

ExpressionStmt(expression) == [type |-> "Expression", expression |-> expression]

PrintStmt(expression) == [type |-> "Print", expression |-> expression]

VarStmt(name, initializer) == [type |-> "Var", name |-> name, initializer |-> initializer]

BlockStmt(statements) == [type |-> "Block", statements |-> statements]

IfStmt(condition, then_branch, else_branch) ==
    [type |-> "If", condition |-> condition, then_branch |-> then_branch,
     else_branch |-> else_branch]

WhileStmt(condition, body) == [type |-> "While", condition |-> condition, body |-> body]

BreakStmt(token) == [type |-> "Break", token |-> token]

FunctionStmt(name, params, body) ==
    [type |-> "Function", name |-> name, params |-> params, body |-> body]

ReturnStmt(token, value) == [type |-> "Return", token |-> token, value |-> value]

(***************************************************************************)
(* callable.rs / function.rs: the callables on the heap `funcs`.           *)
(***************************************************************************)
NativeClock == [native |-> TRUE, name |-> Ident("clock"), params |-> <<>>, body |-> <<>>,
                closure |-> 0]

LoxFunction_new(declaration, closure) ==
    [native |-> FALSE, name |-> declaration.name, params |-> declaration.params,
     body |-> declaration.body, closure |-> closure]

arity(f) == Len(f.params)

(***************************************************************************)
(* interpreter.rs: the evaluator.  `st` is the Interpreter (with the       *)
(* heaps it reaches), the text printed and the diagnostics reported so     *)
(* far; every visitor returns the state after it and its Result.           *)
(***************************************************************************)
R(st, res) == [st |-> st, res |-> res]

\* an error built by a LoxResult constructor: reported, then returned
Raise(st, err) == [st |-> [st EXCEPT !.diag = Append(@, err.message)], res |-> err]

\* a Result computed by a callee: reported there if it is an error
Returned(st, res) == IF Reports(res) THEN Raise(st, res) ELSE R(st, res)

\* the loop of visit_while_stmt ran MaxIter times without ending
Diverge == [kind |-> "Diverge", value |-> Nil, token |-> NoToken, message |-> ""]

RECURSIVE evaluate(_, _), execute(_, _), execute_statements(_, _, _), evaluate_arguments(_, _, _, _), while_loop(_, _, _)

lookup_variable(name, expr, st) ==
    IF expr.id \in DOMAIN st.locals
    THEN Returned(st, get_at(st.envs, st.environment, st.locals[expr.id], name.lexeme))
    ELSE Returned(st, get(st.envs, 1, name))

\* statements.iter().try_for_each(execute): stops at the first Err
execute_statements(statements, i, st) ==
    LET rest(r) == IF r.res.kind # "Ok" THEN r
                   ELSE execute_statements(statements, i + 1, r.st)
    IN  IF i > Len(statements) THEN R(st, Ok(Nil))
        ELSE rest(execute(statements[i], st))

ExecuteBlockKeepsCursorOnError(statements, env, st) ==
    LET restore(result) ==
            IF result.res.kind # "Ok" THEN result
            ELSE R([result.st EXCEPT !.environment = st.environment], result.res)
    IN  restore(execute_statements(statements, 1,
                    [st EXCEPT !.envs = Append(@, env), !.environment = Len(st.envs) + 1]))

execute_block(statements, env, st) ==
    LET restore(result) == R([result.st EXCEPT !.environment = st.environment], result.res)
    IN  restore(execute_statements(statements, 1,
                    [st EXCEPT !.envs = Append(@, env), !.environment = Len(st.envs) + 1]))

visit_block_stmt(stmt, st) ==
    execute_block(stmt.statements, new_with_enclosing(st.environment), st)

visit_if_stmt(stmt, st) ==
    LET branch(c) ==
            IF c.res.kind # "Ok" THEN c
            ELSE IF is_truthy(c.res.value) THEN execute(stmt.then_branch, c.st)
            ELSE IF stmt.else_branch.type # "None" THEN execute(stmt.else_branch, c.st)
            ELSE R(c.st, Ok(Nil))
    IN  branch(evaluate(stmt.condition, st))

visit_expression_stmt(stmt, st) ==
    LET discard(v) == IF v.res.kind # "Ok" THEN v ELSE R(v.st, Ok(Nil))
    IN  discard(evaluate(stmt.expression, st))

FunctionStmtInterned(stmt, st) ==
    LET f == LoxFunction_new(stmt, st.environment)
        known == {i \in 1..Len(st.funcs) : st.funcs[i] = f}
    IN  IF known # {}
        THEN R([st EXCEPT !.envs = define(@, st.environment, stmt.name.lexeme,
                                          Func(CHOOSE i \in known : TRUE))],
               Ok(Nil))
        ELSE R([st EXCEPT !.funcs = Append(@, f),
                          !.envs = define(@, st.environment, stmt.name.lexeme,
                                          Func(Len(st.funcs) + 1))],
               Ok(Nil))

visit_function_stmt(stmt, st) ==
    R([st EXCEPT !.funcs = Append(@, LoxFunction_new(stmt, st.environment)),
                 !.envs = define(@, st.environment, stmt.name.lexeme,
                                 Func(Len(st.funcs) + 1))],
      Ok(Nil))

visit_break_stmt(stmt, st) ==
    IF st.nesting_level = 0
    THEN Raise(st, runtime_error(stmt.token, "Can't break outside of loop"))
    ELSE R(st, Break)

visit_print_stmt(stmt, st) ==
    LET println(v) ==
            IF v.res.kind # "Ok" THEN v
            ELSE R([v.st EXCEPT !.out = Append(@, DebugString(to_string(v.res.value)))],
                   Ok(Nil))
    IN  println(evaluate(stmt.expression, st))

visit_return_stmt(stmt, st) ==
    LET wrap(v) == IF v.res.kind # "Ok" THEN v ELSE R(v.st, return_value(v.res.value))
    IN  IF stmt.value.type # "None" THEN wrap(evaluate(stmt.value, st))
        ELSE R(st, return_value(Nil))

visit_var_stmt(stmt, st) ==
    LET bind(v) ==
            IF v.res.kind # "Ok" THEN v
            ELSE R([v.st EXCEPT !.envs = define(@, v.st.environment, stmt.name.lexeme,
                                                v.res.value)],
                   Ok(Nil))
    IN  IF stmt.initializer.type # "None" THEN bind(evaluate(stmt.initializer, st))
        ELSE bind(R(st, Ok(Nil)))

\* the `while` of visit_while_stmt, iteration k
while_loop(stmt, st, k) ==
    LET body(b) == IF b.res.kind # "Ok" THEN b ELSE while_loop(stmt, b.st, k + 1)
        condition(c) ==
            IF c.res.kind # "Ok" THEN c
            ELSE IF ~is_truthy(c.res.value) THEN R(c.st, Ok(Nil))
            ELSE IF k > MaxIter THEN R(c.st, Diverge)
            ELSE body(execute(stmt.body, c.st))
    IN  condition(evaluate(stmt.condition, st))

visit_while_stmt(stmt, st) ==
    LET leave(l) == IF l.res.kind # "Ok" THEN l
                    ELSE R([l.st EXCEPT !.nesting_level = @ - 1], Ok(Nil))
    IN  leave(while_loop(stmt, [st EXCEPT !.nesting_level = @ + 1], 1))

execute(stmt, st) ==
    CASE stmt.type = "Block" -> visit_block_stmt(stmt, st)
      [] stmt.type = "If" -> visit_if_stmt(stmt, st)
      [] stmt.type = "Expression" -> visit_expression_stmt(stmt, st)
      [] stmt.type = "Function" -> visit_function_stmt(stmt, st)
      [] stmt.type = "Break" -> visit_break_stmt(stmt, st)
      [] stmt.type = "Print" -> visit_print_stmt(stmt, st)
      [] stmt.type = "Return" -> visit_return_stmt(stmt, st)
      [] stmt.type = "Var" -> visit_var_stmt(stmt, st)
      [] stmt.type = "While" -> visit_while_stmt(stmt, st)

visit_assign_expr(expr, st) ==
    LET store(v, a) == IF a.res.kind # "Ok" THEN Returned(v.st, a.res)
                       ELSE R([v.st EXCEPT !.envs = a.envs], Ok(v.res.value))
        value(v) ==
            IF v.res.kind # "Ok" THEN v
            ELSE IF expr.id \in DOMAIN v.st.locals
            THEN store(v, assign_at(v.st.envs, v.st.environment, v.st.locals[expr.id],
                                    expr.name, v.res.value))
            ELSE store(v, assign(v.st.envs, 1, expr.name, v.res.value))
    IN  value(evaluate(expr.value, st))

visit_binary_expr(expr, st) ==
    LET right(l, r) ==
            IF r.res.kind # "Ok" THEN r
            ELSE Returned(r.st, binary_op(expr.operator, l.res.value, r.res.value))
        left(l) == IF l.res.kind # "Ok" THEN l ELSE right(l, evaluate(expr.right, l.st))
    IN  left(evaluate(expr.left, st))

CallDynamicScope(f, args, st) ==
    LET env == [values |-> [x \in {f.params[i].lexeme : i \in 1..Len(f.params)} |->
                               args[CHOOSE i \in 1..Len(f.params) : f.params[i].lexeme = x]],
                enclosing |-> st.environment]
        unwrap(b) == CASE b.res.kind = "ReturnValue" -> R(b.st, Ok(b.res.value))
                       [] b.res.kind = "Ok" -> R(b.st, Ok(Nil))
                       [] OTHER -> b
    IN  IF f.native THEN R(st, Ok(Num(st.clock)))
        ELSE unwrap(execute_block(f.body, env, st))

CallDropsReturnValue(f, args, st) ==
    LET env == [values |-> [x \in {f.params[i].lexeme : i \in 1..Len(f.params)} |->
                               args[CHOOSE i \in 1..Len(f.params) : f.params[i].lexeme = x]],
                enclosing |-> f.closure]
        unwrap(b) == IF b.res.kind \in {"ReturnValue", "Ok"} THEN R(b.st, Ok(Nil)) ELSE b
    IN  IF f.native THEN R(st, Ok(Num(st.clock)))
        ELSE unwrap(execute_block(f.body, env, st))

\* LoxFunction::call and NativeClock::call
LoxCallable_call(f, args, st) ==
    LET bound == 1..(IF Len(args) < Len(f.params) THEN Len(args) ELSE Len(f.params))
        env == [values |-> [x \in {f.params[i].lexeme : i \in bound} |->
                               args[CHOOSE i \in bound :
                                       /\ f.params[i].lexeme = x
                                       /\ \A j \in bound : f.params[j].lexeme = x => j <= i]],
                enclosing |-> f.closure]
        unwrap(b) == CASE b.res.kind = "ReturnValue" -> R(b.st, Ok(b.res.value))
                       [] b.res.kind = "Ok" -> R(b.st, Ok(Nil))
                       [] OTHER -> b
    IN  IF f.native THEN R(st, Ok(Num(st.clock)))
        ELSE unwrap(execute_block(f.body, env, st))

\* the `for arg in &expr.arguments` loop of visit_call_expr
evaluate_arguments(arguments, i, acc, st) ==
    LET push(a) ==
            IF a.res.kind # "Ok" THEN [st |-> a.st, res |-> a.res, args |-> acc]
            ELSE evaluate_arguments(arguments, i + 1, Append(acc, a.res.value), a.st)
    IN  IF i > Len(arguments) THEN [st |-> st, res |-> Ok(Nil), args |-> acc]
        ELSE push(evaluate(arguments[i], st))

CallChecksCalleeFirst(expr, st) ==
    LET invoke(function, a) ==
            IF a.res.kind # "Ok" THEN R(a.st, a.res)
            ELSE IF Len(a.args) # arity(function)
            THEN Raise(a.st, runtime_error(expr.paren, "expected arguments"))
            ELSE LoxCallable_call(function, a.args, a.st)
        callee(c) ==
            IF c.res.kind # "Ok" THEN c
            ELSE IF c.res.value.tag # "function"
            THEN Raise(c.st, runtime_error(expr.paren, "can only call functions and classes"))
            ELSE invoke(c.st.funcs[c.res.value.n],
                        evaluate_arguments(expr.arguments, 1, <<>>, c.st))
    IN  callee(evaluate(expr.callee, st))

visit_call_expr(expr, st) ==
    LET invoke(function, a) ==
            IF Len(a.args) # arity(function)
            THEN Raise(a.st, runtime_error(expr.paren,
                            "expected " \o NatStr(arity(function)) \o " arguments but got "
                                \o NatStr(Len(a.args))))
            ELSE LoxCallable_call(function, a.args, a.st)
        arguments(c, a) ==
            IF a.res.kind # "Ok" THEN R(a.st, a.res)
            ELSE IF c.res.value.tag = "function"
            THEN invoke(a.st.funcs[c.res.value.n], a)
            ELSE Raise(a.st, runtime_error(expr.paren,
                                           "can only call functions and classes"))
        callee(c) ==
            IF c.res.kind # "Ok" THEN c
            ELSE arguments(c, evaluate_arguments(expr.arguments, 1, <<>>, c.st))
    IN  callee(evaluate(expr.callee, st))

LogicalEager(expr, st) ==
    LET right(l, r) ==
            IF r.res.kind # "Ok" THEN r
            ELSE IF (expr.operator.ttype = "Or") = is_truthy(l.res.value)
            THEN R(r.st, l.res) ELSE r
        left(l) == IF l.res.kind # "Ok" THEN l ELSE right(l, evaluate(expr.right, l.st))
    IN  left(evaluate(expr.left, st))

visit_logical_expr(expr, st) ==
    LET left(l) ==
            IF l.res.kind # "Ok" THEN l
            ELSE IF expr.operator.ttype = "Or"
                 THEN IF is_truthy(l.res.value) THEN l ELSE evaluate(expr.right, l.st)
                 ELSE IF ~is_truthy(l.res.value) THEN l ELSE evaluate(expr.right, l.st)
    IN  left(evaluate(expr.left, st))

visit_unary_expr(expr, st) ==
    LET right(r) == IF r.res.kind # "Ok" THEN r
                    ELSE Returned(r.st, unary_op(expr.operator, r.res.value))
    IN  right(evaluate(expr.right, st))

evaluate(expr, st) ==
    CASE expr.type = "Assign" -> visit_assign_expr(expr, st)
      [] expr.type = "Binary" -> visit_binary_expr(expr, st)
      [] expr.type = "Call" -> visit_call_expr(expr, st)
      [] expr.type = "Grouping" -> evaluate(expr.expression, st)
      [] expr.type = "Literal" -> R(st, Ok(expr.value))
      [] expr.type = "Logical" -> visit_logical_expr(expr, st)
      [] expr.type = "Unary" -> visit_unary_expr(expr, st)
      [] expr.type = "Variable" -> lookup_variable(expr.name, expr, st)

\* Interpreter::interpret: the state after the run, the failure flag and
\* the Result of the last statement executed
interpret(stmt, st) ==
    LET finish(r) == [st |-> r.st, had_error |-> r.res.kind # "Ok", res |-> r.res]
    IN  finish(execute_statements(stmt, 1, st))

(***************************************************************************)
(* parser.rs: the recursive-descent parser.  `toks` is the token list      *)
(* (ending with Eof), `p` the Parser: `current` is the 0-based cursor,     *)
(* `had_error` the flag, `reported` the parse errors constructed so far.   *)
(* A production returns [ok, node, err, p]: Ok(node) or Err(err), and the  *)
(* parser after it.                                                        *)
(***************************************************************************)
MaxParams == 255

Parser_new == [current |-> 0, had_error |-> FALSE, reported |-> <<>>, panicked |-> FALSE]

POk(node, p) == [ok |-> TRUE, node |-> node, err |-> Ok(Nil), p |-> p]

PErr(err, p) == [ok |-> FALSE, node |-> NoneNode, err |-> err, p |-> p]

peek(toks, p) == toks[p.current + 1]

\* tokens[current - 1]; at current = 0 the index underflows and the parser panics
PanicToken == Token("Panic", "", NoLiteral)

previous(toks, p) == IF p.current = 0 THEN PanicToken ELSE toks[p.current]

is_at_end(toks, p) == peek(toks, p).ttype = "Eof"

check(toks, p, ttype) == IF is_at_end(toks, p) THEN FALSE ELSE peek(toks, p).ttype = ttype

advance(toks, p) ==
    LET q == IF ~is_at_end(toks, p) THEN [p EXCEPT !.current = @ + 1] ELSE p
    IN  IF q.current = 0 THEN [q EXCEPT !.panicked = TRUE] ELSE q

\* is_match(types): the parser after it; it matched iff the cursor moved
is_match(toks, p, types) ==
    IF \E t \in types : check(toks, p, t) THEN advance(toks, p) ELSE p

matched(p, q) == q.current # p.current

\* Parser::error: sets the flag, then builds (and reports) the ParseError
error(p, token, message) ==
    [p EXCEPT !.had_error = TRUE, !.reported = Append(@, pares_error(token, message))]

\* LoxResult::pares_error called directly: reported, the flag untouched
report_only(p, token, message) ==
    [p EXCEPT !.reported = Append(@, pares_error(token, message))]

consume(toks, p, ttype, message) ==
    IF check(toks, p, ttype)
    THEN LET q == advance(toks, p) IN [POk(NoneNode, q) EXCEPT !.node = previous(toks, q)]
    ELSE PErr(pares_error(peek(toks, p), message), error(p, peek(toks, p), message))

RECURSIVE self_call(_, _, _), expression(_, _), assignment(_, _), or_loop(_, _, _, _), and_loop(_, _, _, _), equality_loop(_, _, _, _), comparison_loop(_, _, _, _), term_loop(_, _, _, _), factor_loop(_, _, _, _), unary(_, _), call_loop(_, _, _), arguments_loop(_, _, _), primary(_, _)

primary(toks, p) ==
    LET close(e, c) == IF ~c.ok THEN c ELSE POk(GroupingExpr(e.node), c.p)
        grouping(e) ==
            IF ~e.ok THEN e
            ELSE close(e, consume(toks, e.p, "RightParen", "Expect ')' after expression."))
        literal(q, t) ==
            CASE t.ttype = "False" -> POk(LiteralExpr(Bool(FALSE)), q)
              [] t.ttype = "True" -> POk(LiteralExpr(Bool(TRUE)), q)
              [] t.ttype = "Nil" -> POk(LiteralExpr(Nil), q)
              [] t.ttype \in {"Number", "String"} -> POk(LiteralExpr(t.literal), q)
              [] t.ttype = "LeftParen" -> grouping(self_call("expression", toks, q))
              [] t.ttype = "Identifier" -> POk(VariableExpr(t, q.current), q)
        token(q) ==
            IF ~matched(p, q)
            THEN PErr(pares_error(peek(toks, p), "Expect expression."),
                      report_only(p, peek(toks, p), "Expect expression."))
            ELSE literal(q, previous(toks, q))
    IN  token(is_match(toks, p, {"False", "True", "Nil", "Number", "String", "LeftParen",
                                 "Identifier"}))

\* the `while self.is_match(&[Comma])` loop of finish_call
arguments_loop(toks, arguments, p) ==
    LET push(e) == IF ~e.ok THEN e ELSE arguments_loop(toks, Append(arguments, e.node), e.p)
        comma(q) == IF ~matched(p, q) THEN POk(arguments, p) ELSE push(self_call("expression", toks, q))
    IN  comma(is_match(toks, p, {"Comma"}))

finish_call(toks, callee, p) ==
    LET build(args, paren) ==
            IF ~paren.ok THEN paren ELSE POk(CallExpr(callee, paren.node, args.node), paren.p)
        close(args) ==
            IF ~args.ok THEN args
            ELSE build(args, consume(toks, args.p, "RightParen",
                                     "Expect ')' after arguments."))
        first(e) == IF ~e.ok THEN e ELSE arguments_loop(toks, <<e.node>>, e.p)
    IN  IF ~check(toks, p, "RightParen") THEN close(first(self_call("expression", toks, p)))
        ELSE close(POk(<<>>, p))

\* the `loop` of call
call_loop(toks, expr, p) ==
    LET q == is_match(toks, p, {"LeftParen"})
        again(c) == IF ~c.ok THEN c ELSE call_loop(toks, c.node, c.p)
    IN  IF ~matched(p, q) THEN POk(expr, p) ELSE again(finish_call(toks, expr, q))

call(toks, p) ==
    LET first(e) == IF ~e.ok THEN e ELSE call_loop(toks, e.node, e.p)
    IN  first(primary(toks, p))

unary(toks, p) ==
    LET q == is_match(toks, p, {"Bang", "Minus"})
        build(operator, right) ==
            IF ~right.ok THEN right ELSE POk(UnaryExpr(operator, right.node), right.p)
    IN  IF matched(p, q) THEN build(previous(toks, q), unary(toks, q))
        ELSE call(toks, p)

\* The loops of factor, term, comparison, equality, and, or.  X_loop parses
\* the operand at the cursor: the first one (`let mut expr = self.next()?`)
\* when `expr` is NoneNode, else the right operand of `operator`, which it
\* folds into `expr` to the left; then it tests `while self.is_match(..)`.
FactorRightFold(toks, expr, operator, p) ==
    LET build(left, op2, rest) ==
            IF ~rest.ok THEN rest ELSE POk(BinaryExpr(left.node, op2, rest.node), rest.p)
        again(right, q) ==
            IF ~matched(right.p, q) THEN right
            ELSE build(right, previous(toks, q), factor_loop(toks, NoneNode, NoToken, q))
        operand(right) == IF ~right.ok THEN right
                          ELSE again(right, is_match(toks, right.p, {"Slash", "Star"}))
    IN  operand(unary(toks, p))

factor_loop(toks, expr, operator, p) ==
    LET fold(right) == IF expr.type = "None" THEN right.node
                       ELSE BinaryExpr(expr, operator, right.node)
        again(right, q) ==
            IF ~matched(right.p, q) THEN POk(fold(right), right.p)
            ELSE factor_loop(toks, fold(right), previous(toks, q), q)
        operand(right) ==
            IF ~right.ok THEN right
            ELSE again(right, is_match(toks, right.p, {"Slash", "Star"}))
    IN  operand(unary(toks, p))

factor(toks, p) == factor_loop(toks, NoneNode, NoToken, p)

term_loop(toks, expr, operator, p) ==
    LET fold(right) == IF expr.type = "None" THEN right.node
                       ELSE BinaryExpr(expr, operator, right.node)
        again(right, q) ==
            IF ~matched(right.p, q) THEN POk(fold(right), right.p)
            ELSE term_loop(toks, fold(right), previous(toks, q), q)
        operand(right) ==
            IF ~right.ok THEN right
            ELSE again(right, is_match(toks, right.p, {"Minus", "Plus"}))
    IN  operand(factor(toks, p))

term(toks, p) == term_loop(toks, NoneNode, NoToken, p)

comparison_loop(toks, expr, operator, p) ==
    LET fold(right) == IF expr.type = "None" THEN right.node
                       ELSE BinaryExpr(expr, operator, right.node)
        again(right, q) ==
            IF ~matched(right.p, q) THEN POk(fold(right), right.p)
            ELSE comparison_loop(toks, fold(right), previous(toks, q), q)
        operand(right) ==
            IF ~right.ok THEN right
            ELSE again(right, is_match(toks, right.p, {"Greater", "GreaterEqual", "Less", "LessEqual"}))
    IN  operand(term(toks, p))

comparison(toks, p) == comparison_loop(toks, NoneNode, NoToken, p)

equality_loop(toks, expr, operator, p) ==
    LET fold(right) == IF expr.type = "None" THEN right.node
                       ELSE BinaryExpr(expr, operator, right.node)
        again(right, q) ==
            IF ~matched(right.p, q) THEN POk(fold(right), right.p)
            ELSE equality_loop(toks, fold(right), previous(toks, q), q)
        operand(right) ==
            IF ~right.ok THEN right
            ELSE again(right, is_match(toks, right.p, {"BangEqual", "EqualEqual"}))
    IN  operand(comparison(toks, p))

equality(toks, p) == equality_loop(toks, NoneNode, NoToken, p)

and_loop(toks, expr, operator, p) ==
    LET fold(right) == IF expr.type = "None" THEN right.node
                       ELSE LogicalExpr(expr, operator, right.node)
        again(right, q) ==
            IF ~matched(right.p, q) THEN POk(fold(right), right.p)
            ELSE and_loop(toks, fold(right), previous(toks, q), q)
        operand(right) ==
            IF ~right.ok THEN right
            ELSE again(right, is_match(toks, right.p, {"And"}))
    IN  operand(equality(toks, p))

and(toks, p) == and_loop(toks, NoneNode, NoToken, p)

or_loop(toks, expr, operator, p) ==
    LET fold(right) == IF expr.type = "None" THEN right.node
                       ELSE LogicalExpr(expr, operator, right.node)
        again(right, q) ==
            IF ~matched(right.p, q) THEN POk(fold(right), right.p)
            ELSE or_loop(toks, fold(right), previous(toks, q), q)
        operand(right) ==
            IF ~right.ok THEN right
            ELSE again(right, is_match(toks, right.p, {"Or"}))
    IN  operand(and(toks, p))

or(toks, p) == or_loop(toks, NoneNode, NoToken, p)

AssignmentErrorAtStart(toks, p) ==
    LET target(expr, q, equals, value) ==
            IF ~value.ok THEN value
            ELSE IF expr.node.type = "Variable"
            THEN POk(AssignExpr(expr.node.name, value.node, q.current), value.p)
            ELSE PErr(pares_error(peek(toks, p), "Invalid assignment target."),
                      error(value.p, peek(toks, p), "Invalid assignment target."))
        equal(expr, q) ==
            IF matched(expr.p, q) THEN target(expr, q, previous(toks, q), assignment(toks, q))
            ELSE expr
        left(expr) == IF ~expr.ok THEN expr ELSE equal(expr, is_match(toks, expr.p, {"Equal"}))
    IN  left(or(toks, p))

assignment(toks, p) ==
    LET target(expr, q, equals, value) ==
            IF ~value.ok THEN value
            ELSE IF expr.node.type = "Variable"
            THEN POk(AssignExpr(expr.node.name, value.node, q.current), value.p)
            ELSE PErr(pares_error(equals, "Invalid assignment target."),
                      error(value.p, equals, "Invalid assignment target."))
        equal(expr, q) ==
            IF matched(expr.p, q) THEN target(expr, q, previous(toks, q), assignment(toks, q))
            ELSE expr
        left(expr) == IF ~expr.ok THEN expr ELSE equal(expr, is_match(toks, expr.p, {"Equal"}))
    IN  left(or(toks, p))

expression(toks, p) == assignment(toks, p)

(***************************************************************************)
(* parser.rs: statements, declarations and error recovery.                 *)
(***************************************************************************)
SyncStart == {"Class", "Fun", "Var", "For", "If", "While", "Print", "Return"}

\* the `while !self.is_at_end()` loop of synchronise
RECURSIVE synchronise_loop(_, _)
synchronise_loop(toks, p) ==
    IF is_at_end(toks, p) THEN p
    ELSE IF previous(toks, p).ttype = "Semicolon" THEN p
    ELSE IF peek(toks, p).ttype \in SyncStart THEN p
    ELSE synchronise_loop(toks, advance(toks, p))

SynchroniseNoAdvance(toks, p) == synchronise_loop(toks, p)

synchronise(toks, p) == synchronise_loop(toks, advance(toks, p))

RECURSIVE declaration(_, _), statement(_, _), block_loop(_, _, _), parameters_loop(_, _, _)

expression_statement(toks, p) ==
    LET build(e, c) == IF ~c.ok THEN c ELSE POk(ExpressionStmt(e.node), c.p)
        value(e) == IF ~e.ok THEN e
                    ELSE build(e, consume(toks, e.p, "Semicolon", "Expect ';' after value."))
    IN  value(self_call("expression", toks, p))

print_statement(toks, p) ==
    LET build(e, c) == IF ~c.ok THEN c ELSE POk(PrintStmt(e.node), c.p)
        value(e) == IF ~e.ok THEN e
                    ELSE build(e, consume(toks, e.p, "Semicolon", "Expect ';' after value."))
    IN  value(self_call("expression", toks, p))

var_declaration(toks, p) ==
    LET build(name, init, c) == IF ~c.ok THEN c ELSE POk(VarStmt(name.node, init.node), c.p)
        initializer(name, init) ==
            IF ~init.ok THEN init
            ELSE build(name, init, consume(toks, init.p, "Semicolon",
                                           "Expect ';' after variable declaration."))
        equal(name, q) ==
            initializer(name, IF matched(name.p, q) THEN self_call("expression", toks, q)
                              ELSE POk(NoneNode, q))
        named(name) == IF ~name.ok THEN name
                       ELSE equal(name, is_match(toks, name.p, {"Equal"}))
    IN  named(consume(toks, p, "Identifier", "Expect variable name."))

return_statement(toks, p) ==
    LET build(value, c) ==
            IF ~c.ok THEN c ELSE POk(ReturnStmt(previous(toks, p), value.node), c.p)
        returned(value) ==
            IF ~value.ok THEN value
            ELSE build(value, consume(toks, value.p, "Semicolon",
                                      "Expect ';' after return value."))
    IN  returned(IF ~check(toks, p, "Semicolon") THEN self_call("expression", toks, p)
                 ELSE POk(NoneNode, p))

\* the tail of for_statement, from the loop body on: the desugaring
for_desugar(initializer, condition, increment, body) ==
    LET with_increment(b) == IF increment.type # "None"
                             THEN BlockStmt(<<b, ExpressionStmt(increment)>>)
                             ELSE b
        with_condition(b) == WhileStmt(IF condition.type # "None" THEN condition
                                       ELSE LiteralExpr(Bool(TRUE)), b)
        with_initializer(b) == IF initializer.type # "None"
                               THEN BlockStmt(<<initializer, b>>)
                               ELSE b
    IN  with_initializer(with_condition(with_increment(body)))

for_statement(toks, p) ==
    LET build(initializer, condition, increment, body) ==
            IF ~body.ok THEN body
            ELSE POk(for_desugar(initializer.node, condition.node, increment.node,
                                 body.node), body.p)
        right_paren(initializer, condition, increment, rp) ==
            IF ~rp.ok THEN rp
            ELSE build(initializer, condition, increment, self_call("statement", toks, rp.p))
        third(initializer, condition, increment) ==
            IF ~increment.ok THEN increment
            ELSE right_paren(initializer, condition, increment,
                             consume(toks, increment.p, "RightParen",
                                     "Expect ')' after for clauses."))
        semicolon(initializer, condition, sc) ==
            IF ~sc.ok THEN sc
            ELSE third(initializer, condition,
                       IF ~check(toks, sc.p, "RightParen") THEN self_call("expression", toks, sc.p)
                       ELSE POk(NoneNode, sc.p))
        second(initializer, condition) ==
            IF ~condition.ok THEN condition
            ELSE semicolon(initializer, condition,
                           consume(toks, condition.p, "Semicolon",
                                   "Expect ';' after loop condition."))
        first(initializer) ==
            IF ~initializer.ok THEN initializer
            ELSE second(initializer,
                        IF ~check(toks, initializer.p, "Semicolon")
                        THEN self_call("expression", toks, initializer.p)
                        ELSE POk(NoneNode, initializer.p))
        clause(lp, q1, q2) ==
            first(IF matched(lp.p, q1) THEN POk(NoneNode, q1)
                  ELSE IF matched(lp.p, q2) THEN var_declaration(toks, q2)
                  ELSE expression_statement(toks, lp.p))
        left_paren(lp) ==
            IF ~lp.ok THEN lp
            ELSE clause(lp, is_match(toks, lp.p, {"Semicolon"}), is_match(toks, lp.p, {"Var"}))
    IN  left_paren(consume(toks, p, "LeftParen", "Expect '(' after 'for'."))

if_statement(toks, p) ==
    LET build(condition, then_branch, else_branch) ==
            IF ~else_branch.ok THEN else_branch
            ELSE POk(IfStmt(condition.node, then_branch.node, else_branch.node),
                     else_branch.p)
        otherwise(condition, then_branch, q) ==
            build(condition, then_branch,
                  IF matched(then_branch.p, q) THEN self_call("statement", toks, q)
                  ELSE POk(NoneNode, q))
        consequent(condition, then_branch) ==
            IF ~then_branch.ok THEN then_branch
            ELSE otherwise(condition, then_branch, is_match(toks, then_branch.p, {"Else"}))
        right_paren(condition, rp) ==
            IF ~rp.ok THEN rp ELSE consequent(condition, self_call("statement", toks, rp.p))
        test(condition) ==
            IF ~condition.ok THEN condition
            ELSE right_paren(condition, consume(toks, condition.p, "RightParen",
                                                "Expect '(' after 'if'."))
        left_paren(lp) == IF ~lp.ok THEN lp ELSE test(self_call("expression", toks, lp.p))
    IN  left_paren(consume(toks, p, "LeftParen", "Expect '(' after 'if'."))

while_statement(toks, p) ==
    LET build(condition, body) ==
            IF ~body.ok THEN body ELSE POk(WhileStmt(condition.node, body.node), body.p)
        right_paren(condition, rp) ==
            IF ~rp.ok THEN rp ELSE build(condition, self_call("statement", toks, rp.p))
        test(condition) ==
            IF ~condition.ok THEN condition
            ELSE right_paren(condition, consume(toks, condition.p, "RightParen",
                                                "Expect ')' after 'while'."))
        left_paren(lp) == IF ~lp.ok THEN lp ELSE test(self_call("expression", toks, lp.p))
    IN  left_paren(consume(toks, p, "LeftParen", "Expect '(' after 'while'."))

\* the `while !check(RightBrace) && !is_at_end()` loop of block
block_loop(toks, statements, p) ==
    LET push(d) == IF ~d.ok THEN d ELSE block_loop(toks, Append(statements, d.node), d.p)
    IN  IF ~check(toks, p, "RightBrace") /\ ~is_at_end(toks, p)
        THEN push(self_call("declaration", toks, p))
        ELSE POk(statements, p)

block(toks, p) ==
    LET close(b, c) == IF ~c.ok THEN c ELSE POk(b.node, c.p)
        statements(b) ==
            IF ~b.ok THEN b
            ELSE close(b, consume(toks, b.p, "RightBrace", "expect '}' after block."))
    IN  statements(block_loop(toks, <<>>, p))

\* the `while self.is_match(&[Comma])` loop of function
parameters_loop(toks, parameters, p) ==
    LET push(c) == IF ~c.ok THEN c ELSE parameters_loop(toks, Append(parameters, c.node), c.p)
        comma(q) ==
            IF ~matched(p, q) THEN POk(parameters, p)
            ELSE IF Len(parameters) >= MaxParams /\ ~q.had_error
            THEN PErr(pares_error(peek(toks, q), "Can't have more than 255 parameters."),
                      error(q, peek(toks, q), "Can't have more than 255 parameters."))
            ELSE push(consume(toks, q, "Identifier", "Expect parameter name."))
    IN  comma(is_match(toks, p, {"Comma"}))

function(toks, p) ==
    LET build(fn_name, parameters, body) ==
            IF ~body.ok THEN body
            ELSE POk(FunctionStmt(fn_name.node, parameters.node, body.node), body.p)
        left_brace(fn_name, parameters, lb) ==
            IF ~lb.ok THEN lb ELSE build(fn_name, parameters, block(toks, lb.p))
        right_paren(fn_name, parameters, rp) ==
            IF ~rp.ok THEN rp
            ELSE left_brace(fn_name, parameters,
                            consume(toks, rp.p, "LeftBrace",
                                    "Expect '{' before function body."))
        params(fn_name, parameters) ==
            IF ~parameters.ok THEN parameters
            ELSE right_paren(fn_name, parameters,
                             consume(toks, parameters.p, "RightParen",
                                     "Expect ')' after parameters."))
        first(c) == IF ~c.ok THEN c ELSE parameters_loop(toks, <<c.node>>, c.p)
        left_paren(fn_name, lp) ==
            IF ~lp.ok THEN lp
            ELSE params(fn_name,
                        IF ~check(toks, lp.p, "RightParen")
                        THEN first(consume(toks, lp.p, "Identifier",
                                           "Expect parameter name."))
                        ELSE POk(<<>>, lp.p))
        named(fn_name) ==
            IF ~fn_name.ok THEN fn_name
            ELSE left_paren(fn_name, consume(toks, fn_name.p, "LeftParen",
                                             "Expect '(' after function name."))
    IN  named(consume(toks, p, "Identifier", "Expect function name."))

statement(toks, p) ==
    LET q == is_match(toks, p, {"Break", "For", "If", "Print", "Return", "While",
                                "LeftBrace"})
        t == previous(toks, q)
        break(token, c) == IF ~c.ok THEN c ELSE POk(BreakStmt(token), c.p)
        braces(b) == IF ~b.ok THEN b ELSE POk(BlockStmt(b.node), b.p)
    IN  IF ~matched(p, q) THEN expression_statement(toks, p)
        ELSE CASE t.ttype = "Break" ->
                    break(peek(toks, q),
                          consume(toks, q, "Semicolon", "Expect ';' after 'break'."))
               [] t.ttype = "For" -> for_statement(toks, q)
               [] t.ttype = "If" -> if_statement(toks, q)
               [] t.ttype = "Print" -> print_statement(toks, q)
               [] t.ttype = "Return" -> return_statement(toks, q)
               [] t.ttype = "While" -> while_statement(toks, q)
               [] t.ttype = "LeftBrace" -> braces(block(toks, q))

declaration(toks, p) ==
    LET q1 == is_match(toks, p, {"Fun"})
        q2 == is_match(toks, p, {"Var"})
        recover(result) ==
            IF ~result.ok THEN [result EXCEPT !.p = synchronise(toks, result.p)] ELSE result
    IN  recover(IF matched(p, q1) THEN function(toks, q1)
                ELSE IF matched(p, q2) THEN var_declaration(toks, q2)
                ELSE self_call("statement", toks, p))

\* `self.expression()`, `self.statement()`, `self.declaration()`: the calls by
\* which the productions re-enter the grammar
self_call(method, toks, p) ==
    CASE method = "expression" -> expression(toks, p)
      [] method = "statement" -> statement(toks, p)
      [] method = "declaration" -> declaration(toks, p)

\* the loop of Parser::parse: `statements.push(self.declaration()?)`
RECURSIVE parse_loop(_, _, _)
ParseLoopNoEndCheck(toks, statements, p) ==
    LET push(d) == IF ~d.ok THEN d ELSE parse_loop(toks, Append(statements, d.node), d.p)
    IN  push(self_call("declaration", toks, p))

parse_loop(toks, statements, p) ==
    LET push(d) == IF ~d.ok THEN d ELSE parse_loop(toks, Append(statements, d.node), d.p)
    IN  IF is_at_end(toks, p) THEN POk(statements, p) ELSE push(self_call("declaration", toks, p))

parse(toks) == parse_loop(toks, <<>>, Parser_new)

success(p) == ~p.had_error

(***************************************************************************)
(* scanner.rs: the tokens of a line of source, one per word.               *)
(***************************************************************************)
Lexeme(ttype) ==
    CASE ttype = "LeftParen" -> "(" [] ttype = "RightParen" -> ")"
      [] ttype = "LeftBrace" -> "{" [] ttype = "RightBrace" -> "}"
      [] ttype = "Comma" -> "," [] ttype = "Semicolon" -> ";"
      [] ttype = "Minus" -> "-" [] ttype = "Plus" -> "+"
      [] ttype = "Slash" -> "/" [] ttype = "Star" -> "*"
      [] ttype = "Bang" -> "!" [] ttype = "BangEqual" -> "!="
      [] ttype = "Equal" -> "=" [] ttype = "EqualEqual" -> "=="
      [] ttype = "Greater" -> ">" [] ttype = "GreaterEqual" -> ">="
      [] ttype = "Less" -> "<" [] ttype = "LessEqual" -> "<="
      [] ttype = "And" -> "and" [] ttype = "Or" -> "or"
      [] ttype = "True" -> "true" [] ttype = "False" -> "false"
      [] ttype = "Nil" -> "nil" [] ttype = "Var" -> "var"
      [] ttype = "Fun" -> "fun" [] ttype = "For" -> "for"
      [] ttype = "If" -> "if" [] ttype = "Else" -> "else"
      [] ttype = "While" -> "while" [] ttype = "Print" -> "print"
      [] ttype = "Return" -> "return" [] ttype = "Break" -> "break"
      [] ttype = "Class" -> "class"
      [] OTHER -> ""

T(ttype) == Token(ttype, Lexeme(ttype), NoLiteral)

NumTok(k) == Token("Number", NatStr(k), Num(k))

EofTok == T("Eof")

\* one Token per word of a line of source
Scan(words) ==
    [i \in 1..Len(words) |->
        IF words[i] \in {"0", "1", "2", "3", "4", "5", "6", "7", "8", "9"}
        THEN NumTok(CHOOSE k \in 0..9 : NatStr(k) = words[i])
        ELSE IF \E tt \in {"LeftParen", "RightParen", "LeftBrace", "RightBrace", "Comma",
                           "Semicolon", "Minus", "Plus", "Slash", "Star", "Bang",
                           "BangEqual", "Equal", "EqualEqual", "Greater", "GreaterEqual",
                           "Less", "LessEqual", "And", "Or", "True", "False", "Nil", "Var",
                           "Fun", "For", "If", "Else", "While", "Print", "Return", "Break",
                           "Class"} : Lexeme(tt) = words[i]
        THEN T(CHOOSE tt \in {"LeftParen", "RightParen", "LeftBrace", "RightBrace", "Comma",
                              "Semicolon", "Minus", "Plus", "Slash", "Star", "Bang",
                              "BangEqual", "Equal", "EqualEqual", "Greater", "GreaterEqual",
                              "Less", "LessEqual", "And", "Or", "True", "False", "Nil", "Var",
                              "Fun", "For", "If", "Else", "While", "Print", "Return", "Break",
                              "Class"} : Lexeme(tt) = words[i])
        ELSE Ident(words[i])]

(***************************************************************************)
(* The lines of source fed to Lox::run, one per run.                       *)
(***************************************************************************)
\* var i = 0; while (i < 2) { while (true) { break; } i = i + 1; print i; } print 9;
SrcNestedBreak ==
    <<"var", "i", "=", "0", ";",
      "while", "(", "i", "<", "2", ")", "{",
          "while", "(", "true", ")", "{", "break", ";", "}",
          "i", "=", "i", "+", "1", ";", "print", "i", ";", "}",
      "print", "9", ";">>

SrcBreakOnly == <<"break", ";">>

SrcLoopBreak == <<"while", "(", "true", ")", "break", ";">>

SrcLoopError == <<"while", "(", "true", ")", "undefined", ";">>

\* fun f() { while (true) { return 1; } } print f();
SrcLoopReturn ==
    <<"fun", "f", "(", ")", "{", "while", "(", "true", ")", "{", "return", "1", ";", "}", "}",
      "print", "f", "(", ")", ";">>

SrcLoopDone ==
    <<"var", "k", "=", "0", ";", "while", "(", "k", "<", "2", ")", "k", "=", "k", "+", "1", ";">>

SrcFor ==
    <<"for", "(", "var", "i", "=", "0", ";", "i", "<", "3", ";", "i", "=", "i", "+", "1", ")",
      "print", "i", ";">>

\* fun makeCounter() { var count = 0; fun inc() { count = count + 1; return count; }
\*                     return inc; }
\* var c1 = makeCounter(); var c2 = makeCounter();
\* print c1(); print c1(); print c2(); print c1();
SrcCounter ==
    <<"fun", "makeCounter", "(", ")", "{", "var", "count", "=", "0", ";",
          "fun", "inc", "(", ")", "{", "count", "=", "count", "+", "1", ";",
                                      "return", "count", ";", "}",
          "return", "inc", ";", "}",
      "var", "c1", "=", "makeCounter", "(", ")", ";",
      "var", "c2", "=", "makeCounter", "(", ")", ";",
      "print", "c1", "(", ")", ";", "print", "c1", "(", ")", ";",
      "print", "c2", "(", ")", ";", "print", "c1", "(", ")", ";">>

SrcBangExample ==
    <<"print", "!", "(", "2", "+", "3", ")", "*", "4", "==", "5", "-", "6", "/", "3", ";">>

SrcPrecedence == <<"print", "2", "+", "3", "*", "4", ";">>

SrcAssignChain ==
    <<"var", "a", ";", "var", "b", ";", "a", "=", "b", "=", "3", ";",
      "print", "a", ";", "print", "b", ";">>

SrcAssignUndeclared == <<"x", "=", "1", ";">>

SrcRedeclare == <<"var", "a", "=", "1", ";", "var", "a", "=", "true", ";", "print", "a", ";">>

SrcDivide == <<"print", "4", "/", "2", ";", "print", "4", "/", "0", ";">>

\* a runtime error two blocks deep
SrcBlockError == <<"{", "{", "undefined", ";", "}", "}">>

\* a break two blocks deep in a loop
SrcBlockBreak == <<"while", "(", "true", ")", "{", "{", "break", ";", "}", "}">>

\* fun f() { { return 1; } }  { f(); var z = 1; }
SrcBlockReturn ==
    <<"fun", "f", "(", ")", "{", "{", "return", "1", ";", "}", "}",
      "{", "f", "(", ")", ";", "var", "z", "=", "1", ";", "}">>

SrcTopReturn == <<"return", "1", ";">>

\* fun f() { if (true) { while (true) { return 7; } } print 8; }
\* fun g() { return; print 8; }  fun h() { }
\* print f(); print g(); print h();
SrcReturnPaths ==
    <<"fun", "f", "(", ")", "{", "if", "(", "true", ")", "{",
          "while", "(", "true", ")", "{", "return", "7", ";", "}", "}", "print", "8", ";", "}",
      "fun", "g", "(", ")", "{", "return", ";", "print", "8", ";", "}",
      "fun", "h", "(", ")", "{", "}",
      "print", "f", "(", ")", ";", "print", "g", "(", ")", ";", "print", "h", "(", ")", ";">>

\* fun e() { undefined; print 8; } print e(); print 9;
SrcCallError ==
    <<"fun", "e", "(", ")", "{", "undefined", ";", "print", "8", ";", "}",
      "print", "e", "(", ")", ";", "print", "9", ";">>

\* var a; fun f(p) { print 7; } (a = f)(a = 2); print a;
SrcCallOrder ==
    <<"var", "a", ";", "fun", "f", "(", "p", ")", "{", "print", "7", ";", "}",
      "(", "a", "=", "f", ")", "(", "a", "=", "2", ")", ";", "print", "a", ";">>

\* var a = 0; 1(a = 2); print 9;
SrcCallNotCallable ==
    <<"var", "a", "=", "0", ";", "1", "(", "a", "=", "2", ")", ";", "print", "9", ";">>

\* var a = 0; fun f(p) { print 7; } f(a = 1, a = 2); print 9;
SrcCallArity ==
    <<"var", "a", "=", "0", ";", "fun", "f", "(", "p", ")", "{", "print", "7", ";", "}",
      "f", "(", "a", "=", "1", ",", "a", "=", "2", ")", ";", "print", "9", ";">>

\* fun f(p, q) { } fun g() { f(1, 2); } g();
SrcLexical ==
    <<"fun", "f", "(", "p", ",", "q", ")", "{", "}",
      "fun", "g", "(", ")", "{", "f", "(", "1", ",", "2", ")", ";", "}",
      "g", "(", ")", ";">>

\* { fun k(p) { } }
SrcBlockFun == <<"{", "fun", "k", "(", "p", ")", "{", "}", "}">>

\* fun f() { } var g = f; print g == f; fun f() { } print g == f; print g == g;
\* print clock == clock; print g == clock; fun r() { return f; } print r() == f;
\* fun mk() { fun h() { } } mk(); mk();
SrcFunIdentity ==
    <<"fun", "f", "(", ")", "{", "}", "var", "g", "=", "f", ";",
      "print", "g", "==", "f", ";",
      "fun", "f", "(", ")", "{", "}",
      "print", "g", "==", "f", ";", "print", "g", "==", "g", ";",
      "print", "clock", "==", "clock", ";", "print", "g", "==", "clock", ";",
      "fun", "r", "(", ")", "{", "return", "f", ";", "}",
      "print", "r", "(", ")", "==", "f", ";",
      "fun", "mk", "(", ")", "{", "fun", "h", "(", ")", "{", "}", "}",
      "mk", "(", ")", ";", "mk", "(", ")", ";">>

\* var a = 1; { var a = 2; print a; a = 3; print a; } print a;
\* fun f(p) { print p; } f(4);
SrcLocals ==
    <<"var", "a", "=", "1", ";",
      "{", "var", "a", "=", "2", ";", "print", "a", ";", "a", "=", "3", ";",
           "print", "a", ";", "}",
      "print", "a", ";",
      "fun", "f", "(", "p", ")", "{", "print", "p", ";", "}", "f", "(", "4", ")", ";">>

\* fun f() { break; } var i = 0; while (i < 2) { i = i + 1; f(); print i; } print 9;
SrcBreakInCall ==
    <<"fun", "f", "(", ")", "{", "break", ";", "}",
      "var", "i", "=", "0", ";",
      "while", "(", "i", "<", "2", ")", "{",
          "i", "=", "i", "+", "1", ";", "f", "(", ")", ";", "print", "i", ";", "}",
      "print", "9", ";">>

Sources ==
    <<SrcNestedBreak, SrcBreakOnly, SrcLoopBreak, SrcLoopError, SrcLoopReturn, SrcLoopDone,
      SrcFor, SrcCounter, SrcBangExample, SrcPrecedence, SrcAssignChain, SrcAssignUndeclared,
      SrcRedeclare, SrcDivide, SrcBlockError, SrcBlockBreak, SrcBlockReturn,
      SrcTopReturn, SrcReturnPaths, SrcCallError,
      SrcCallOrder, SrcCallNotCallable, SrcCallArity,
      SrcLexical, SrcBlockFun, SrcFunIdentity, SrcLocals, SrcBreakInCall>>

\* the index of a line in Sources
ProgramOf(src) == CHOOSE i \in 1..Len(Sources) : Sources[i] = src

\* scanner.scan_tokens() pushes Eof last; parser.parse() of each line
Parses == [i \in 1..Len(Sources) |-> parse(Append(Scan(Sources[i]), EofTok))]

(***************************************************************************)
(* main.rs: Lox::run on the persistent interpreter.                        *)
(***************************************************************************)
ClockStart == 1000

EmptyLocals == [x \in {} |-> 0]

NoRun == [prog |-> 0, parsed |-> FALSE, had_error |-> FALSE, res |-> Ok(Nil),
          out |-> <<>>, diag |-> <<>>, ok |-> TRUE]

NoOp == [name |-> "none"]

NoParse == [ok |-> FALSE]

\* Interpreter::new: globals holds the native clock, the cursor is globals
Interpreter_envs == <<[values |-> [x \in {"clock"} |-> Func(1)], enclosing |-> 0]>>

Init ==
    /\ envs = Interpreter_envs
    /\ funcs = <<NativeClock>>
    /\ environment = 1
    /\ nesting_level = 0
    /\ locals = EmptyLocals
    /\ runs = 0
    /\ last = NoRun
    /\ tokens = <<>>
    /\ parsed = NoParse
    /\ op = NoOp

Lox_run(i) ==
    LET st == [envs |-> envs, funcs |-> funcs, environment |-> environment,
               nesting_level |-> nesting_level, locals |-> locals,
               out |-> <<>>, diag |-> <<>>, clock |-> ClockStart + runs]
        finish(pr, r) ==
            /\ envs' = r.st.envs
            /\ funcs' = r.st.funcs
            /\ environment' = r.st.environment
            /\ nesting_level' = r.st.nesting_level
            /\ last' = [prog |-> i, parsed |-> TRUE, had_error |-> r.had_error,
                        res |-> r.res, out |-> r.st.out, diag |-> r.st.diag,
                        ok |-> success(pr.p) /\ ~r.had_error]
        run(pr) ==
            IF ~pr.ok
            THEN /\ last' = [NoRun EXCEPT !.prog = i, !.ok = FALSE]
                 /\ UNCHANGED <<envs, funcs, environment, nesting_level>>
            ELSE finish(pr, interpret(pr.node, st))
    IN  /\ runs < MaxRuns
        /\ runs' = runs + 1
        /\ run(Parses[i])
        /\ UNCHANGED <<locals, tokens, parsed, op>>

Next == \E i \in 1..Len(Sources) : Lox_run(i)

Spec == Init /\ [][Next]_vars

(***************************************************************************)
(* Direct calls of the Environment methods (as the tests of                *)
(* environment.rs make them), get_at and assign_at included, on a heap of  *)
(* up to MaxScopes scopes, and of visit_assign_expr with the cursor on one *)
(* of them.  `op` records the call, its result and the heap before it.     *)
(***************************************************************************)
EnvNames == {"a", "b"}

\* the values written under a name
EnvValues(key) == IF key = "a" THEN {Num(1), Bool(TRUE)} ELSE {Num(2)}

InitEnv ==
    /\ envs = <<Environment_new>>
    /\ funcs = <<NativeClock>>
    /\ environment = 1
    /\ nesting_level = 0
    /\ locals = EmptyLocals
    /\ runs = 0
    /\ last = NoRun
    /\ tokens = <<>>
    /\ parsed = NoParse
    /\ op = NoOp

OpRecord(name, e, key, value, res) ==
    [name |-> name, env |-> e, key |-> key, value |-> value, res |-> res, pre |-> envs]

EnvNew(enclosing) ==
    /\ Len(envs) < MaxScopes
    /\ envs' = Append(envs, new_with_enclosing(enclosing))
    /\ op' = OpRecord("new", Len(envs) + 1, "", Nil, Ok(Nil))
    /\ UNCHANGED <<funcs, environment, nesting_level, locals, runs, last, tokens, parsed>>

EnvDefine(e, key, value) ==
    /\ envs' = define(envs, e, key, value)
    /\ op' = OpRecord("define", e, key, value, Ok(Nil))
    /\ UNCHANGED <<funcs, environment, nesting_level, locals, runs, last, tokens, parsed>>

EnvGet(e, key) ==
    /\ op' = OpRecord("get", e, key, Nil, get(envs, e, Ident(key)))
    /\ UNCHANGED <<envs, funcs, environment, nesting_level, locals, runs, last, tokens, parsed>>

EnvAssign(e, key, value) ==
    /\ LET a == assign(envs, e, Ident(key), value)
       IN  /\ envs' = a.envs
           /\ op' = OpRecord("assign", e, key, value, a.res)
    /\ UNCHANGED <<funcs, environment, nesting_level, locals, runs, last, tokens, parsed>>

\* the expression `key = value` evaluated with the cursor on scope e
EnvAssignExpr(e, key, value) ==
    /\ LET st == [envs |-> envs, funcs |-> funcs, environment |-> e,
                  nesting_level |-> nesting_level, locals |-> locals,
                  out |-> <<>>, diag |-> <<>>, clock |-> ClockStart]
           r == visit_assign_expr(AssignExpr(Ident(key), LiteralExpr(value), 1), st)
       IN  /\ envs' = r.st.envs
           /\ op' = OpRecord("assign_expr", e, key, value, r.res)
    /\ UNCHANGED <<funcs, environment, nesting_level, locals, runs, last, tokens, parsed>>

EnvGetAt(e, distance, key) ==
    /\ op' = [name |-> "get_at", env |-> e, key |-> key, value |-> Nil,
              res |-> get_at(envs, e, distance, key), pre |-> envs, distance |-> distance]
    /\ UNCHANGED <<envs, funcs, environment, nesting_level, locals, runs, last, tokens, parsed>>

EnvAssignAt(e, distance, key, value) ==
    /\ LET a == assign_at(envs, e, distance, Ident(key), value)
       IN  /\ envs' = a.envs
           /\ op' = [name |-> "assign_at", env |-> e, key |-> key, value |-> value,
                     res |-> a.res, pre |-> envs, distance |-> distance]
    /\ UNCHANGED <<funcs, environment, nesting_level, locals, runs, last, tokens, parsed>>

NextEnv ==
    \/ \E enclosing \in {0, Len(envs)} : EnvNew(enclosing)
    \/ \E e \in 1..Len(envs), key \in EnvNames : \E value \in EnvValues(key) :
            EnvDefine(e, key, value)
    \/ \E e \in 1..Len(envs), key \in EnvNames : EnvGet(e, key)
    \/ \E e \in 1..Len(envs), key \in EnvNames : \E value \in EnvValues(key) :
            EnvAssign(e, key, value)
    \/ \E e \in 1..Len(envs), key \in EnvNames : \E value \in EnvValues(key) :
            EnvAssignExpr(e, key, value)
    \/ \E e \in 1..Len(envs), distance \in 0..Len(envs), key \in EnvNames :
            EnvGetAt(e, distance, key)
    \/ \E e \in 1..Len(envs), distance \in 0..Len(envs), key \in EnvNames :
        \E value \in EnvValues(key) : EnvAssignAt(e, distance, key, value)

SpecEnv == InitEnv /\ [][NextEnv]_vars

(***************************************************************************)
(* Direct calls of visit_binary_expr / visit_unary_expr /                  *)
(* visit_logical_expr on literal operands (as the tests of interpreter.rs  *)
(* make them).                                                             *)
(***************************************************************************)
OperandValues ==
    {Num(0), Num(1), Num(2), Num(4), Number(1, 2), Num(0 - 3),
     String("a"), String("1"), Bool(TRUE), Bool(FALSE), Nil, Func(1)}

BinaryOperators ==
    {"Minus", "Plus", "Slash", "Star", "Greater", "Less", "GreaterEqual", "LessEqual",
     "BangEqual", "EqualEqual"}

UnaryOperators == {"UnaryMinus", "UnaryBang"}

LogicalOperators == {"Or", "And"}

\* the value of the global `a` before a logical expression is evaluated
Untouched == String("b")

FreshInterpreter ==
    [envs |-> Interpreter_envs, funcs |-> <<NativeClock>>, environment |-> 1,
     nesting_level |-> 0, locals |-> EmptyLocals, out |-> <<>>, diag |-> <<>>,
     clock |-> ClockStart]

\* the operands and the operator of the call to make
InitOps ==
    /\ envs = Interpreter_envs
    /\ funcs = <<NativeClock>>
    /\ environment = 1
    /\ nesting_level = 0
    /\ locals = EmptyLocals
    /\ runs = 0
    /\ last = NoRun
    /\ tokens = <<>>
    /\ parsed = NoParse
    /\ \E operator \in BinaryOperators \cup UnaryOperators \cup LogicalOperators :
       \E l \in OperandValues, r \in OperandValues :
            /\ operator \in UnaryOperators => l = Nil
            /\ op = [name |-> "operands", operator |-> operator, left |-> l, right |-> r,
                     res |-> Ok(Nil), diag |-> <<>>]

VisitBinary ==
    /\ op.name = "operands"
    /\ op.operator \in BinaryOperators
    /\ LET v == visit_binary_expr(BinaryExpr(LiteralExpr(op.left), T(op.operator),
                                             LiteralExpr(op.right)), FreshInterpreter)
       IN  op' = [op EXCEPT !.name = "binary", !.res = v.res, !.diag = v.st.diag]
    /\ UNCHANGED <<envs, funcs, environment, nesting_level, locals, runs, last, tokens, parsed>>

VisitUnary ==
    /\ op.name = "operands"
    /\ op.operator \in UnaryOperators
    /\ LET operator == IF op.operator = "UnaryMinus" THEN "Minus" ELSE "Bang"
           v == visit_unary_expr(UnaryExpr(T(operator), LiteralExpr(op.right)),
                                 FreshInterpreter)
       IN  op' = [op EXCEPT !.name = "unary", !.operator = operator, !.res = v.res,
                            !.diag = v.st.diag]
    /\ UNCHANGED <<envs, funcs, environment, nesting_level, locals, runs, last, tokens, parsed>>

\* `left or (a = right)` / `left and (a = right)` with the global a defined
VisitLogical ==
    /\ op.name = "operands"
    /\ op.operator \in LogicalOperators
    /\ LET st == [FreshInterpreter EXCEPT !.envs = define(@, 1, "a", Untouched)]
           v == visit_logical_expr(
                    LogicalExpr(LiteralExpr(op.left), T(op.operator),
                                GroupingExpr(AssignExpr(Ident("a"), LiteralExpr(op.right), 1))),
                    st)
       IN  /\ op' = [op EXCEPT !.name = "logical", !.res = v.res, !.diag = v.st.diag]
           /\ envs' = v.st.envs
    /\ UNCHANGED <<funcs, environment, nesting_level, locals, runs, last, tokens, parsed>>

NextOps == VisitBinary \/ VisitUnary \/ VisitLogical

SpecOps == InitOps /\ [][NextOps]_vars

(***************************************************************************)
(* Parser::expression on the token lists of up to MaxTokens tokens over    *)
(* ExprAlphabet and on the lists of ExprExamples and TargetExamples, and   *)
(* the evaluation of the tree on an interpreter whose globals declare a    *)
(* and b.                                                                  *)
(***************************************************************************)
\* one operand of each kind and one operator of a level of the ladder
ExprAlphabet ==
    {NumTok(2), Ident("a"), T("Equal"), T("Or"), T("EqualEqual"), T("Plus"), T("Star"),
     T("Bang")}

TokPrecedence == Scan(<<"2", "+", "3", "*", "4">>)

TokAssignChain == Scan(<<"a", "=", "b", "=", "3">>)

TokBangExample ==
    Scan(<<"!", "(", "2", "+", "3", ")", "*", "4", "==", "5", "-", "6", "/", "3">>)

TokCallCompare ==
    Scan(<<"a", "(", "2", ",", "b", ")", "(", ")", "<", "-", "-", "1", "and", "2", ">=", "3",
           "or", "nil", "!=", "true">>)

TokGroupAssign == Scan(<<"(", "a", ")", "=", "2">>)

TokCallAssign == Scan(<<"a", "(", ")", "=", "2">>)

ExprExamples == {TokPrecedence, TokAssignChain, TokBangExample, TokCallCompare}

\* assignments to what is not a variable
TargetExamples == {TokGroupAssign, TokCallAssign}

InitParse ==
    /\ envs = define(define(Interpreter_envs, 1, "a", Nil), 1, "b", Nil)
    /\ funcs = <<NativeClock>>
    /\ environment = 1
    /\ nesting_level = 0
    /\ locals = EmptyLocals
    /\ runs = 0
    /\ last = NoRun
    /\ tokens = <<>>
    /\ parsed = NoParse
    /\ op = NoOp

PushToken(tok) ==
    /\ parsed = NoParse
    /\ Len(tokens) < MaxTokens
    /\ tokens' = Append(tokens, tok)
    /\ UNCHANGED <<envs, funcs, environment, nesting_level, locals, runs, last, parsed, op>>

TakeExample(toks) ==
    /\ parsed = NoParse
    /\ tokens = <<>>
    /\ tokens' = toks
    /\ UNCHANGED <<envs, funcs, environment, nesting_level, locals, runs, last, parsed, op>>

ParseExpression ==
    /\ parsed = NoParse
    /\ tokens # <<>>
    /\ parsed' = expression(Append(tokens, EofTok), Parser_new)
    /\ UNCHANGED <<envs, funcs, environment, nesting_level, locals, runs, last, tokens, op>>

\* the whole list was one expression
Accepted == "p" \in DOMAIN parsed /\ parsed.ok /\ is_at_end(Append(tokens, EofTok), parsed.p)

EvaluateExpression ==
    LET finish(v) ==
            /\ envs' = v.st.envs
            /\ op' = [name |-> "evaluate", res |-> v.res, diag |-> v.st.diag]
    IN  /\ Accepted
        /\ op = NoOp
        /\ finish(evaluate(parsed.node,
                           [envs |-> envs, funcs |-> funcs, environment |-> environment,
                            nesting_level |-> nesting_level, locals |-> locals,
                            out |-> <<>>, diag |-> <<>>, clock |-> ClockStart]))
        /\ UNCHANGED <<funcs, environment, nesting_level, locals, runs, last, tokens, parsed>>

NextParse ==
    \/ \E tok \in ExprAlphabet : PushToken(tok)
    \/ \E toks \in ExprExamples \cup TargetExamples : TakeExample(toks)
    \/ ParseExpression
    \/ EvaluateExpression

SpecParse == InitParse /\ [][NextParse]_vars

(***************************************************************************)
(* The static resolver (its source file is not part of the repository;     *)
(* modelled from its contract): a walk of the statements with a stack of   *)
(* the names declared in each static scope.  A block and a function (its   *)
(* parameters and body together) open a scope; the top level opens none.   *)
(* `decls` collects each declaration with the scope it is made in (0 is    *)
(* the global scope), `table` is what Interpreter::resolve has stored.     *)
(***************************************************************************)
Resolver_new == [scopes |-> <<>>, uids |-> <<>>, next |-> 1, decls |-> {}, table |-> EmptyLocals]

\* Interpreter::resolve: locals.insert(expr, depth)
resolve(table, id, depth) == [x \in (DOMAIN table) \cup {id} |-> IF x = id THEN depth ELSE table[x]]

begin_scope(rs) ==
    [rs EXCEPT !.scopes = Append(@, {}), !.uids = Append(@, rs.next), !.next = @ + 1]

end_scope(rs) ==
    [rs EXCEPT !.scopes = SubSeq(@, 1, Len(@) - 1), !.uids = SubSeq(@, 1, Len(@) - 1)]

declare(rs, name) ==
    IF rs.scopes = <<>> THEN [rs EXCEPT !.decls = @ \cup {<<name, 0>>}]
    ELSE [rs EXCEPT !.scopes[Len(rs.scopes)] = @ \cup {name},
                    !.decls = @ \cup {<<name, rs.uids[Len(rs.uids)]>>}]

\* the distance from the innermost scope to the nearest one declaring the
\* name; no entry when no tracked scope declares it
resolve_local(rs, id, name) ==
    IF \E i \in 1..Len(rs.scopes) : name \in rs.scopes[i]
    THEN [rs EXCEPT !.table =
            resolve(@, id, Len(rs.scopes)
                           - (CHOOSE i \in 1..Len(rs.scopes) :
                                /\ name \in rs.scopes[i]
                                /\ \A j \in 1..Len(rs.scopes) : name \in rs.scopes[j] => j <= i))]
    ELSE rs

RECURSIVE resolve_expr(_, _), resolve_arguments(_, _, _), resolve_stmt(_, _), resolve_statements(_, _, _), declare_params(_, _, _)

resolve_arguments(arguments, i, rs) ==
    IF i > Len(arguments) THEN rs
    ELSE resolve_arguments(arguments, i + 1, resolve_expr(arguments[i], rs))

resolve_expr(expr, rs) ==
    CASE expr.type = "Variable" -> resolve_local(rs, expr.id, expr.name.lexeme)
      [] expr.type = "Assign" ->
            resolve_local(resolve_expr(expr.value, rs), expr.id, expr.name.lexeme)
      [] expr.type \in {"Binary", "Logical"} ->
            resolve_expr(expr.right, resolve_expr(expr.left, rs))
      [] expr.type = "Call" ->
            resolve_arguments(expr.arguments, 1, resolve_expr(expr.callee, rs))
      [] expr.type = "Grouping" -> resolve_expr(expr.expression, rs)
      [] expr.type = "Unary" -> resolve_expr(expr.right, rs)
      [] OTHER -> rs

declare_params(params, i, rs) ==
    IF i > Len(params) THEN rs
    ELSE declare_params(params, i + 1, declare(rs, params[i].lexeme))

resolve_statements(statements, i, rs) ==
    IF i > Len(statements) THEN rs
    ELSE resolve_statements(statements, i + 1, resolve_stmt(statements[i], rs))

resolve_stmt(stmt, rs) ==
    CASE stmt.type = "Block" ->
            end_scope(resolve_statements(stmt.statements, 1, begin_scope(rs)))
      [] stmt.type = "Var" -> declare(resolve_expr(stmt.initializer, rs), stmt.name.lexeme)
      [] stmt.type = "Function" ->
            end_scope(resolve_statements(stmt.body, 1,
                declare_params(stmt.params, 1, begin_scope(declare(rs, stmt.name.lexeme)))))
      [] stmt.type \in {"Expression", "Print"} -> resolve_expr(stmt.expression, rs)
      [] stmt.type = "If" ->
            resolve_stmt(stmt.else_branch,
                resolve_stmt(stmt.then_branch, resolve_expr(stmt.condition, rs)))
      [] stmt.type = "While" -> resolve_stmt(stmt.body, resolve_expr(stmt.condition, rs))
      [] stmt.type = "Return" -> resolve_expr(stmt.value, rs)
      [] OTHER -> rs

\* the whole pass over a program
Resolver_resolve(statements) == resolve_statements(statements, 1, Resolver_new)

(***************************************************************************)
(* Parser::parse on whole programs: the lines of up to MaxProgramTokens    *)
(* tokens made of the statements of Statements, some of them broken; and   *)
(* Interpreter::interpret of the statement list once with an empty         *)
(* `locals` (`last`) and once with the resolver's table in it (`op`);      *)
(* and single calls of Parser::declaration and Parser::synchronise on      *)
(* those lines.                                                            *)
(***************************************************************************)
Statements ==
    {Scan(<<"var", "a", "=", "1", ";">>),
     Scan(<<"print", "a", ";">>),
     Scan(<<"a", "=", "a", "+", "1", ";">>),
     Scan(<<"{", "var", "b", "=", "a", ";", "print", "b", ";", "}">>),
     Scan(<<"{", "var", "a", "=", "2", ";", "}">>),
     Scan(<<"print", ";">>),
     Scan(<<"var", "=", "1", ";">>)}

InitProg ==
    /\ envs = Interpreter_envs
    /\ funcs = <<NativeClock>>
    /\ environment = 1
    /\ nesting_level = 0
    /\ locals = EmptyLocals
    /\ runs = 0
    /\ last = NoRun
    /\ tokens = <<>>
    /\ parsed = NoParse
    /\ op = NoOp

PushStatement(toks) ==
    /\ parsed = NoParse
    /\ Len(tokens) + Len(toks) <= MaxProgramTokens
    /\ tokens' = tokens \o toks
    /\ UNCHANGED <<envs, funcs, environment, nesting_level, locals, runs, last, parsed, op>>

ParseProgram ==
    /\ parsed = NoParse
    /\ parsed' = parse(Append(tokens, EofTok))
    /\ UNCHANGED <<envs, funcs, environment, nesting_level, locals, runs, last, tokens, op>>

RunProgram ==
    LET st == [envs |-> envs, funcs |-> funcs, environment |-> environment,
               nesting_level |-> nesting_level, locals |-> locals,
               out |-> <<>>, diag |-> <<>>, clock |-> ClockStart]
        finish(rs, resolved, r) ==
            /\ envs' = r.st.envs
            /\ funcs' = r.st.funcs
            /\ environment' = r.st.environment
            /\ nesting_level' = r.st.nesting_level
            /\ last' = [prog |-> 0, parsed |-> TRUE, had_error |-> r.had_error,
                        res |-> r.res, out |-> r.st.out, diag |-> r.st.diag,
                        ok |-> success(parsed.p) /\ ~r.had_error]
            /\ op' = [name |-> "resolved", decls |-> rs.decls, table |-> rs.table,
                      had_error |-> resolved.had_error, res |-> resolved.res,
                      out |-> resolved.st.out, diag |-> resolved.st.diag]
        run(rs) == finish(rs, interpret(parsed.node, [st EXCEPT !.locals = rs.table]),
                          interpret(parsed.node, st))
    IN  /\ "p" \in DOMAIN parsed
        /\ parsed.ok
        /\ op = NoOp
        /\ run(Resolver_resolve(parsed.node))
        /\ UNCHANGED <<locals, runs, tokens, parsed>>

\* Parser::synchronise with the cursor on token k of a line that failed to
\* parse
Synchronise(k) ==
    /\ "p" \in DOMAIN parsed
    /\ ~parsed.ok
    /\ op = NoOp
    /\ op' = [name |-> "synchronise", from |-> k,
              p |-> synchronise(Append(tokens, EofTok), [Parser_new EXCEPT !.current = k])]
    /\ UNCHANGED <<envs, funcs, environment, nesting_level, locals, runs, last, tokens, parsed>>

\* one iteration of the loop of Parser::parse: declaration() with the cursor
\* on token k, the first k tokens being whole statements already parsed
Declaration(k) ==
    /\ "p" \in DOMAIN parsed
    /\ op = NoOp
    /\ parse(Append(SubSeq(tokens, 1, k), EofTok)).ok
    /\ op' = [name |-> "declaration", from |-> k,
              res |-> declaration(Append(tokens, EofTok), [Parser_new EXCEPT !.current = k])]
    /\ UNCHANGED <<envs, funcs, environment, nesting_level, locals, runs, last, tokens, parsed>>

NextProg ==
    \/ \E toks \in Statements : PushStatement(toks)
    \/ ParseProgram
    \/ RunProgram
    \/ \E k \in 0..Len(tokens) : Synchronise(k)
    \/ \E k \in 0..(Len(tokens) - 1) : Declaration(k)

SpecProg == InitProg /\ [][NextProg]_vars

(***************************************************************************)
(* Properties of the Environment methods (SpecEnv).                        *)
(***************************************************************************)
\* the scopes from e outward, nearest first
RECURSIVE Chain(_, _)
Chain(h, e) == IF h[e].enclosing = 0 THEN <<e>> ELSE <<e>> \o Chain(h, h[e].enclosing)

\* the positions on the chain from e whose scope binds key
Binders(h, e, key) ==
    {i \in 1..Len(Chain(h, e)) : key \in DOMAIN h[Chain(h, e)[i]].values}

Min(S) == CHOOSE x \in S : \A y \in S : x <= y

NearestBinder(h, e, key) == Chain(h, e)[Min(Binders(h, e, key))]

\* C8: define never fails and replaces the binding of the name in the scope
\* it is called on: afterwards get of the name returns the value just
\* defined, the other names of the scope and all other scopes are unchanged.
C8_DefineReplaces ==
    op.name = "define" =>
        /\ op.res.kind = "Ok"
        /\ get(envs, op.env, Ident(op.key)) = Ok(op.value)
        /\ DOMAIN envs[op.env].values = DOMAIN op.pre[op.env].values \cup {op.key}
        /\ \A k \in DOMAIN op.pre[op.env].values \ {op.key} :
                envs[op.env].values[k] = op.pre[op.env].values[k]
        /\ envs[op.env].enclosing = op.pre[op.env].enclosing
        /\ \A e \in (1..Len(envs)) \ {op.env} : envs[e] = op.pre[e]

\* a re-declaration: the name was bound to another value, next to another name
C8_Witness ==
    /\ op.name = "define"
    /\ op.key \in DOMAIN op.pre[op.env].values
    /\ op.pre[op.env].values[op.key] # op.value
    /\ DOMAIN op.pre[op.env].values # {op.key}

\* C9: assign overwrites the binding in the nearest scope on the chain that
\* binds the name and changes nothing else; when no scope on the chain
\* binds it, it fails with "Undefined variable" at the token and the heap
\* is unchanged.  An assignment expression to a name bound nowhere fails
\* and binds it nowhere.
C9_AssignNearestOrFail ==
    /\ op.name = "assign" =>
          IF Binders(op.pre, op.env, op.key) # {}
          THEN /\ op.res.kind = "Ok"
               /\ envs = [op.pre EXCEPT ![NearestBinder(op.pre, op.env, op.key)].values[op.key]
                                            = op.value]
          ELSE /\ op.res = runtime_error(Ident(op.key), "Undefined variable")
               /\ envs = op.pre
    /\ (op.name = "assign_expr" /\ \A e \in 1..Len(op.pre) : op.key \notin DOMAIN op.pre[e].values)
          => /\ op.res = runtime_error(Ident(op.key), "Undefined variable")
             /\ envs = op.pre

\* assign walked outward: the scope it was called on does not bind the name,
\* an enclosing one does, and the value changes
C9_Witness ==
    /\ op.name = "assign"
    /\ Binders(op.pre, op.env, op.key) # {}
    /\ Min(Binders(op.pre, op.env, op.key)) > 1
    /\ op.pre[NearestBinder(op.pre, op.env, op.key)].values[op.key] # op.value

\* C10: get returns the value bound in the nearest scope on the chain that
\* binds the name, fails with "Undefined variable" at the token exactly
\* when none does, and changes no scope.
C10_GetNearestOrFail ==
    op.name = "get" =>
        /\ envs = op.pre
        /\ IF Binders(op.pre, op.env, op.key) # {}
           THEN op.res = Ok(op.pre[NearestBinder(op.pre, op.env, op.key)].values[op.key])
           ELSE op.res = runtime_error(Ident(op.key), "Undefined variable")

\* an inner binding hides an outer binding of the same name to another value
C10_Witness ==
    /\ op.name = "get"
    /\ Cardinality(Binders(op.pre, op.env, op.key)) = 2
    /\ op.pre[Chain(op.pre, op.env)[1]].values[op.key]
         # op.pre[Chain(op.pre, op.env)[2]].values[op.key]

(***************************************************************************)
(* Properties of the binary operators (SpecOps).                           *)
(***************************************************************************)
\* C7: `/` on two numbers is an error (no value) whenever the right operand
\* is zero, and otherwise the quotient q, the number with q * right = left;
\* 4 / 0 is an error and 4 / 2 is 2.
C7_DivisionByZeroIsError ==
    (op.name = "binary" /\ op.operator = "Slash"
        /\ op.left.tag = "number" /\ op.right.tag = "number") =>
        /\ IF op.right.n = 0
           THEN op.res.kind \notin {"Ok", "Break", "ReturnValue"} /\ op.diag # <<>>
           ELSE /\ op.res.kind = "Ok"
                /\ op.res.value.tag = "number"
                /\ op.res.value.n * op.right.n * op.left.d
                     = op.left.n * op.res.value.d * op.right.d
        /\ (op.left = Num(4) /\ op.right = Num(2)) => op.res = Ok(Num(2))

C7_Witness ==
    /\ op.name = "binary" /\ op.operator = "Slash"
    /\ op.left = Num(4) /\ op.right = Num(0)
    /\ op.res.kind = "GenericError"

(***************************************************************************)
(* Properties of the parser's trees (SpecParse).                           *)
(***************************************************************************)
\* the level of the ladder that builds a node: assignment 1, or 2, and 3,
\* equality 4, comparison 5, term 6, factor 7, unary 8, call 9, primary 10
Level(node) ==
    CASE node.type = "Assign" -> 1
      [] node.type = "Logical" -> IF node.operator.ttype = "Or" THEN 2 ELSE 3
      [] node.type = "Binary" ->
            (CASE node.operator.ttype \in {"BangEqual", "EqualEqual"} -> 4
               [] node.operator.ttype \in {"Greater", "GreaterEqual", "Less", "LessEqual"} -> 5
               [] node.operator.ttype \in {"Minus", "Plus"} -> 6
               [] node.operator.ttype \in {"Slash", "Star"} -> 7)
      [] node.type = "Unary" -> 8
      [] node.type = "Call" -> 9
      [] OTHER -> 10

\* every operand comes from a level the ladder allows: the left operand of
\* a binary level from that level or a tighter one, its right operand from
\* a tighter one (left fold); the operand of a unary from unary or tighter,
\* the value of an assignment from any level (right fold)
RECURSIVE Ladder(_)
Ladder(node) ==
    CASE node.type \in {"Binary", "Logical"} ->
            /\ Level(node.left) >= Level(node)
            /\ Level(node.right) > Level(node)
            /\ Ladder(node.left)
            /\ Ladder(node.right)
      [] node.type = "Unary" -> Level(node.right) >= 8 /\ Ladder(node.right)
      [] node.type = "Assign" -> Ladder(node.value)
      [] node.type = "Call" ->
            /\ Level(node.callee) >= 9
            /\ Ladder(node.callee)
            /\ \A i \in 1..Len(node.arguments) : Ladder(node.arguments[i])
      [] node.type = "Grouping" -> Ladder(node.expression)
      [] OTHER -> TRUE

\* the tokens of a literal
LiteralToken(value) ==
    CASE value.tag = "bool" -> IF value.n = 1 THEN T("True") ELSE T("False")
      [] value.tag = "nil" -> T("Nil")
      [] OTHER -> Token("Number", to_string(value), value)

\* the tokens a tree was built from, in order
RECURSIVE Yield(_), YieldArguments(_, _)
YieldArguments(arguments, i) ==
    IF i > Len(arguments) THEN <<>>
    ELSE (IF i > 1 THEN <<T("Comma")>> ELSE <<>>) \o Yield(arguments[i])
            \o YieldArguments(arguments, i + 1)

Yield(node) ==
    CASE node.type \in {"Binary", "Logical"} ->
            Yield(node.left) \o <<node.operator>> \o Yield(node.right)
      [] node.type = "Unary" -> <<node.operator>> \o Yield(node.right)
      [] node.type = "Assign" -> <<node.name, T("Equal")>> \o Yield(node.value)
      [] node.type = "Call" ->
            Yield(node.callee) \o <<T("LeftParen")>> \o YieldArguments(node.arguments, 1)
                \o <<node.paren>>
      [] node.type = "Grouping" ->
            <<T("LeftParen")>> \o Yield(node.expression) \o <<T("RightParen")>>
      [] node.type = "Variable" -> <<node.name>>
      [] node.type = "Literal" -> <<LiteralToken(node.value)>>

\* C6: the tree the parser builds for a token list it accepts as one
\* expression is the tree of the precedence ladder: its tokens in order are
\* the list, each binary level folds to the left, unary and assignment to
\* the right.  The example lists are accepted; `2 + 3 * 4` evaluates to 14
\* and `a = b = 3` leaves the globals a and b bound to 3.
C6_PrecedenceLadder ==
    /\ Accepted => Ladder(parsed.node) /\ Yield(parsed.node) = tokens
    /\ ("p" \in DOMAIN parsed /\ tokens \in ExprExamples) => Accepted
    /\ (op.name = "evaluate" /\ tokens = TokPrecedence) => op.res = Ok(Num(14))
    /\ (op.name = "evaluate" /\ tokens = TokAssignChain) =>
            /\ op.res = Ok(Num(3))
            /\ envs[1].values["a"] = Num(3)
            /\ envs[1].values["b"] = Num(3)

\* two operators of one binary level, folded to the left
C6_Witness ==
    /\ Accepted
    /\ tokens = <<NumTok(2), T("Star"), NumTok(2), T("Star"), NumTok(2)>>
    /\ parsed.node.left.type = "Binary"

(***************************************************************************)
(* Properties of the runs of Lox::run (Spec).                              *)
(***************************************************************************)
\* what `print` writes for a list of values
Printed(values) == [i \in 1..Len(values) |-> DebugString(to_string(values[i]))]

\* C1: the break in the inner loop of SrcNestedBreak ends the inner loop
\* only: the outer loop goes on (it prints 1 and 2) and the statement after
\* it runs (it prints 9); no Break signal leaves the run.
C1_InnermostLoopConsumesBreak ==
    last.prog = ProgramOf(SrcNestedBreak) =>
        /\ last.res.kind = "Ok"
        /\ ~last.had_error
        /\ last.out = Printed(<<Num(1), Num(2), Num(9)>>)

\* C2: in every state of the interpreter, whatever ran before, a `break`
\* outside any loop is the reported RuntimeError "Can't break outside of
\* loop", never a Break signal.
C2_BreakOutsideLoopIsError ==
    last.prog = ProgramOf(SrcBreakOnly) =>
        /\ last.res = runtime_error(T("Semicolon"), "Can't break outside of loop")
        /\ last.diag = <<"Can't break outside of loop">>

\* C3: on a fresh interpreter the for loop of SrcFor prints 0, 1, 2 and
\* nothing else, raises no error and ends.
C3_ForPrintsZeroOneTwo ==
    (runs = 1 /\ last.prog = ProgramOf(SrcFor)) =>
        /\ last.res.kind = "Ok"
        /\ ~last.had_error
        /\ last.out = Printed(<<Num(0), Num(1), Num(2)>>)

\* C4: on a fresh interpreter the calls c1(), c1(), c2(), c1() of the two
\* counters of SrcCounter yield 1, 2, 1, 3.
C4_CountersAreIndependent ==
    (runs = 1 /\ last.prog = ProgramOf(SrcCounter)) =>
        /\ ~last.had_error
        /\ last.out = Printed(<<Num(1), Num(2), Num(1), Num(3)>>)

\* C5 as stated: `!(2 + 3) * 4 == 5 - 6 / 3` evaluates without error to false.
C5_BangExampleIsFalse ==
    last.prog = ProgramOf(SrcBangExample) =>
        /\ ~last.had_error
        /\ last.out = Printed(<<Bool(FALSE)>>)

\* C5 amended: `!(2 + 3) * 4 == 5 - 6 / 3` parses, and its evaluation stops
\* at `*`, whose left operand `!(2 + 3)` is the boolean false, with the
\* reported error "operands must be numbers"; it yields no value.
C5_BangExampleIsTypeError ==
    last.prog = ProgramOf(SrcBangExample) =>
        /\ last.parsed
        /\ last.had_error
        /\ last.res = GenericError("invalid expression:operands must be numbers")
        /\ last.diag = <<"invalid expression:operands must be numbers">>
        /\ last.out = <<>>

C5_Witness ==
    /\ last.prog = ProgramOf(SrcBangExample)
    /\ last.parsed
    /\ last.res.kind = "GenericError"

(***************************************************************************)
(* Properties of whole programs (SpecProg).                                *)
(***************************************************************************)
\* no name is declared in more than one scope of the program
NoShadowing(decls) == \A d1 \in decls, d2 \in decls : d1[1] = d2[1] => d1[2] = d2[2]

\* C11: a program in which no name is declared in more than one scope
\* prints the same values and ends with the same result and the same
\* reported errors whether `locals` holds the resolver's distances or is
\* empty.
\* the two runs of the program: `locals` populated (op) and empty (last)
SameOutcome ==
    /\ op.res = last.res
    /\ op.had_error = last.had_error
    /\ op.out = last.out
    /\ op.diag = last.diag

IsPrefix(s, t) == Len(s) <= Len(t) /\ SubSeq(t, 1, Len(s)) = s

\* C11 as stated: a program in which no name is declared in more than one
\* scope prints the same values and ends with the same result and the same
\* reported errors whether `locals` holds the resolver's distances or is
\* empty.
C11_ResolvedEqualsFallback ==
    (op.name = "resolved" /\ NoShadowing(op.decls)) => SameOutcome

\* C11 amended: for such a program the two runs are the same up to the
\* first reference to a name declared in a block or function scope.  There
\* the run with the empty table fails with "Undefined variable" at that
\* name (the fallback reads the global scope only), while the run with the
\* distances reads the binding and goes on: what the first printed is a
\* prefix of what the second prints.
C11_FallbackFailsAtFirstLocal ==
    (op.name = "resolved" /\ NoShadowing(op.decls)) =>
        \/ SameOutcome
        \/ /\ last.res.kind = "RuntimeError"
           /\ last.res.message = "Undefined variable"
           /\ \E d \in op.decls : d[1] = last.res.token.lexeme /\ d[2] # 0
           /\ op.res.kind # "Panic"
           /\ IsPrefix(last.out, op.out)

\* a block-local is declared, read and printed: only the run with the
\* distances prints it
C11_Witness ==
    /\ op.name = "resolved"
    /\ NoShadowing(op.decls)
    /\ op.table # EmptyLocals
    /\ op.res.kind = "Ok"
    /\ op.out = Printed(<<Num(1)>>)
    /\ last.out = <<>>
    /\ last.res = runtime_error(Ident("b"), "Undefined variable")

\* the number of broken statements of a line made of Statements: a `print`
\* without a value, a `var` without a name
Broken(toks) ==
    Cardinality({i \in 1..(Len(toks) - 1) :
                    \/ toks[i].ttype = "Print" /\ toks[i + 1].ttype = "Semicolon"
                    \/ toks[i].ttype = "Var" /\ toks[i + 1].ttype = "Equal"})

\* C12: Parser::parse reports one parse error for each broken statement of
\* the line and goes on after each: it attempts every later statement, so
\* it ends with the cursor on Eof.
C12_ParseErrorsAccumulate ==
    "p" \in DOMAIN parsed =>
        /\ Len(parsed.p.reported) = Broken(tokens)
        /\ is_at_end(Append(tokens, EofTok), parsed.p)

\* C13: after Parser::parse, success() is false exactly when a parse error
\* was constructed during the parse.
C13_SuccessIffNoParseError ==
    "p" \in DOMAIN parsed => (success(parsed.p) <=> parsed.p.reported = <<>>)

(***************************************************************************)
(* Properties of the runs of Lox::run, continued (Spec).                   *)
(***************************************************************************)
\* C14: execute_block puts back the environment that was current when it
\* was entered, however the body ends.  After every run (ended normally, by
\* a runtime error, by Break or by ReturnValue, from any depth of blocks
\* and calls) the cursor is the global scope; and when a call made in a
\* block ends by a `return` from an inner block of the function, the
\* cursor is back on the caller's block: the `var` after the call binds
\* its name there.
C14_EnvironmentRestored ==
    /\ environment = 1
    /\ (runs = 1 /\ last.prog = ProgramOf(SrcBlockReturn)) =>
            /\ last.res.kind = "Ok"
            /\ Len(envs) = 4
            /\ envs[2] = [values |-> [x \in {"z"} |-> Num(1)], enclosing |-> 1]
            /\ envs[3] = [values |-> EmptyMap, enclosing |-> 1]
            /\ envs[4] = [values |-> EmptyMap, enclosing |-> 3]

\* a runtime error raised two blocks deep has ended the run
C14_Witness ==
    /\ last.prog = ProgramOf(SrcBlockError)
    /\ last.res = runtime_error(Ident("undefined"), "Undefined variable")
    /\ Len(envs) >= 3
    /\ environment = 1

\* C15: whenever a run ends because a statement failed with a runtime
\* error, the cursor is the global scope and the loop-nesting counter is 0.
C15_ErrorLeavesStateClean ==
    (last.had_error /\ Reports(last.res)) => environment = 1 /\ nesting_level = 0

\* C16: no Break and no ReturnValue ever reaches the statement loop of
\* interpret: a run that fails has failed with an error and has reported it.
C16_NoSignalReachesInterpret ==
    last.had_error => last.res.kind \notin {"Break", "ReturnValue"} /\ last.diag # <<>>

\* C17: a `return` anywhere in the body of a function (inside an if and a
\* loop as well) ends the body at once and its value is the value of the
\* call, nil for a bare `return;`; a body that ends without `return` makes
\* the call nil; a runtime error in the body ends it as well and is the
\* outcome of the call, unchanged.  The statements after the `return` or
\* the error never print.
C17_ReturnEndsCall ==
    /\ last.prog = ProgramOf(SrcReturnPaths) =>
            /\ last.res.kind = "Ok"
            /\ ~last.had_error
            /\ last.out = Printed(<<Num(7), Nil, Nil>>)
    /\ last.prog = ProgramOf(SrcLoopReturn) =>
            /\ last.res.kind = "Ok"
            /\ last.out = Printed(<<Num(1)>>)
    /\ last.prog = ProgramOf(SrcCallError) =>
            /\ last.res = runtime_error(Ident("undefined"), "Undefined variable")
            /\ last.diag = <<"Undefined variable">>
            /\ last.out = <<>>

\* the three calls have been made
C17_Witness ==
    /\ last.prog = ProgramOf(SrcReturnPaths)
    /\ Len(last.out) = 3
    /\ last.out[1] = DebugString("7")

\* C18: a call evaluates the callee, then the arguments from left to
\* right (the assignments made by them show the order).  A callee that is
\* not a callable, and a number of arguments that is not the arity, are
\* runtime errors at the closing parenthesis of the call, raised after the
\* arguments are evaluated; the body does not run (nothing is printed) and
\* no scope is created.
C18_CallChecks ==
    /\ last.prog = ProgramOf(SrcCallOrder) =>
            /\ last.res.kind = "Ok"
            /\ last.out = Printed(<<Num(7), Num(2)>>)
            /\ envs[1].values["a"] = Num(2)
    /\ last.prog = ProgramOf(SrcCallNotCallable) =>
            /\ last.res = runtime_error(T("RightParen"), "can only call functions and classes")
            /\ last.diag = <<"can only call functions and classes">>
            /\ last.out = <<>>
            /\ envs[1].values["a"] = Num(2)
            /\ runs = 1 => Len(envs) = 1
    /\ last.prog = ProgramOf(SrcCallArity) =>
            /\ last.res = runtime_error(T("RightParen"), "expected 1 arguments but got 2")
            /\ last.diag = <<"expected 1 arguments but got 2">>
            /\ last.out = <<>>
            /\ envs[1].values["a"] = Num(2)
            /\ runs = 1 => Len(envs) = 1

\* the call of a number has failed after its argument was evaluated
C18_Witness ==
    /\ last.prog = ProgramOf(SrcCallNotCallable)
    /\ last.res.kind = "RuntimeError"
    /\ last.res.token.ttype = "RightParen"
    /\ envs[1].values["a"] = Num(2)

IsRuntimeError(o) == o.res.kind \in {"GenericError", "RuntimeError"} /\ o.diag # <<>>

\* C20: over all pairs of operands, `+` is the sum of two numbers, the
\* concatenation of two strings, or of a string and the text of a number
\* in operand order, and an error for every other pair of tags; `-`, `*`
\* and `/` yield a value only on two numbers (then always a number, but for
\* `/` by zero) and are an error on every other pair.
C20_ArithmeticTyping ==
    (op.name = "binary" /\ op.operator \in {"Plus", "Minus", "Star", "Slash"}) =>
        IF op.operator = "Plus"
        THEN CASE op.left.tag = "number" /\ op.right.tag = "number" ->
                    /\ op.res.kind = "Ok"
                    /\ op.res.value.tag = "number"
                    /\ op.res.value.n * op.left.d * op.right.d
                         = (op.left.n * op.right.d + op.right.n * op.left.d) * op.res.value.d
               [] op.left.tag = "string" /\ op.right.tag = "string" ->
                    op.res = Ok(String(op.left.s \o op.right.s))
               [] op.left.tag = "string" /\ op.right.tag = "number" ->
                    op.res = Ok(String(op.left.s \o to_string(op.right)))
               [] op.left.tag = "number" /\ op.right.tag = "string" ->
                    op.res = Ok(String(to_string(op.left) \o op.right.s))
               [] OTHER -> IsRuntimeError(op)
        ELSE IF op.left.tag = "number" /\ op.right.tag = "number"
             THEN IF op.operator = "Slash" /\ op.right.n = 0 THEN IsRuntimeError(op)
                  ELSE op.res.kind = "Ok" /\ op.res.value.tag = "number"
             ELSE IsRuntimeError(op)

\* a string and a number were added
C20_Witness ==
    /\ op.name = "binary"
    /\ op.operator = "Plus"
    /\ op.left = String("a")
    /\ op.right = Number(1, 2)
    /\ op.res = Ok(String("a0.5"))

(***************************************************************************)
(* Properties of the comparison and equality operators (SpecOps).          *)
(***************************************************************************)
Comparisons == {"Greater", "Less", "GreaterEqual", "LessEqual", "BangEqual", "EqualEqual"}

\* l is before r in the order of their common tag: numbers by value,
\* strings as listed in StringOrder, false before true; nil is only equal
\* to nil, and function values are not ordered
Before(l, r) ==
    CASE l.tag = "number" -> l.n * r.d < r.n * l.d
      [] l.tag = "string" -> StringRank(l.s) < StringRank(r.s)
      [] l.tag = "bool" -> l.n < r.n
      [] OTHER -> FALSE

\* what a comparison of two values of one tag is expected to yield
Expected(operator, l, r) ==
    CASE operator = "Greater" -> Before(r, l)
      [] operator = "Less" -> Before(l, r)
      [] operator = "GreaterEqual" -> Before(r, l) \/ (l = r /\ l.tag # "function")
      [] operator = "LessEqual" -> Before(l, r) \/ (l = r /\ l.tag # "function")
      [] operator = "BangEqual" -> l # r
      [] operator = "EqualEqual" -> l = r

\* C21: each of > < >= <= != == fails with an error on two operands of
\* different tags, and on two operands of one tag yields the boolean of
\* the order or the equality of that tag (nil == nil is true; function
\* values are equal to themselves and not ordered).
C21_ComparisonTyping ==
    (op.name = "binary" /\ op.operator \in Comparisons) =>
        IF op.left.tag # op.right.tag
        THEN IsRuntimeError(op)
        ELSE op.res = Ok(Bool(Expected(op.operator, op.left, op.right))) /\ op.diag = <<>>

\* 1 == "1" was evaluated and failed
C21_Witness ==
    /\ op.name = "binary"
    /\ op.operator = "EqualEqual"
    /\ op.left = Num(1)
    /\ op.right = String("1")
    /\ op.res.kind = "GenericError"

(***************************************************************************)
(* Properties of the logical operators (SpecOps).                          *)
(***************************************************************************)
\* C22: `left or right` evaluates right, with its side effect, only when
\* left is falsy, and `left and right` only when left is truthy, where nil
\* and false are the only falsy values; the result is the left value when
\* right was skipped and the right value otherwise, never a coerced boolean.
C22_ShortCircuit ==
    op.name = "logical" =>
        LET falsy == op.left \in {Nil, Bool(FALSE)}
            skipped == IF op.operator = "Or" THEN ~falsy ELSE falsy
        IN  IF skipped
            THEN op.res = Ok(op.left) /\ envs[1].values["a"] = Untouched
            ELSE op.res = Ok(op.right) /\ envs[1].values["a"] = op.right

\* `0 or (a = 1)` yielded 0 and left a alone
C22_Witness ==
    /\ op.name = "logical"
    /\ op.operator = "Or"
    /\ op.left = Num(0)
    /\ op.right = Num(1)
    /\ op.res = Ok(Num(0))
    /\ envs[1].values["a"] = Untouched

(***************************************************************************)
(* Properties of get_at and assign_at (SpecEnv).                           *)
(***************************************************************************)
\* the scope `distance` links out from e, or 0 when the chain is shorter
ScopeAt(h, e, distance) ==
    IF distance < Len(Chain(h, e)) THEN Chain(h, e)[distance + 1] ELSE 0

\* C23: get_at and assign_at walk exactly `distance` enclosing links from
\* the scope they are called on and read / write the binding of the name in
\* that scope only, whatever nearer and farther scopes bind under the same
\* name; get_at changes nothing and assign_at changes nothing but that one
\* binding.
C23_ExactDistance ==
    /\ (op.name = "get_at" /\ ScopeAt(op.pre, op.env, op.distance) # 0) =>
            /\ envs = op.pre
            /\ op.key \in DOMAIN op.pre[ScopeAt(op.pre, op.env, op.distance)].values =>
                    op.res = Ok(op.pre[ScopeAt(op.pre, op.env, op.distance)].values[op.key])
    /\ (op.name = "assign_at" /\ ScopeAt(op.pre, op.env, op.distance) # 0) =>
            /\ op.res.kind = "Ok"
            /\ Len(envs) = Len(op.pre)
            /\ op.key \in DOMAIN envs[ScopeAt(op.pre, op.env, op.distance)].values
            /\ envs[ScopeAt(op.pre, op.env, op.distance)].values[op.key] = op.value
            /\ \A e \in 1..Len(envs) :
                /\ envs[e].enclosing = op.pre[e].enclosing
                /\ DOMAIN envs[e].values =
                        DOMAIN op.pre[e].values
                            \cup (IF e = ScopeAt(op.pre, op.env, op.distance)
                                  THEN {op.key} ELSE {})
                /\ \A k \in DOMAIN op.pre[e].values :
                        (e # ScopeAt(op.pre, op.env, op.distance) \/ k # op.key) =>
                            envs[e].values[k] = op.pre[e].values[k]

\* assign_at wrote the enclosing scope past a nearer binding of the name,
\* which kept its other value
C23_Witness ==
    /\ op.name = "assign_at"
    /\ op.env = 2
    /\ op.distance = 1
    /\ op.pre[2].enclosing = 1
    /\ op.key \in DOMAIN op.pre[2].values
    /\ op.key \in DOMAIN op.pre[1].values
    /\ op.pre[2].values[op.key] # op.value
    /\ op.pre[1].values[op.key] # op.value
    /\ envs[1].values[op.key] = op.value
    /\ envs[2].values[op.key] = op.pre[2].values[op.key]

(***************************************************************************)
(* Properties of the parser's recovery (SpecProg).                         *)
(***************************************************************************)
\* synchronise may stop with the cursor on token k of toks: at the end,
\* after a `;`, or before a keyword that starts a statement
SyncPoint(toks, k) ==
    \/ toks[k + 1].ttype = "Eof"
    \/ (k > 0 /\ toks[k].ttype = "Semicolon")
    \/ toks[k + 1].ttype \in {"Class", "Fun", "Var", "For", "If", "While", "Print", "Return"}

\* C24: synchronise consumes at least one token unless the cursor is at the
\* end, then discards tokens up to the first place where the parser is at
\* the end, or the last consumed token is `;`, or the next token is one of
\* class fun var for if while print return, and stops there; and a parse
\* reports at most one error per broken statement of the line.
C24_Synchronise ==
    /\ op.name = "synchronise" =>
            /\ op.p.current >= op.from
            /\ (op.p.current = op.from) => (Append(tokens, EofTok)[op.from + 1].ttype = "Eof")
            /\ SyncPoint(Append(tokens, EofTok), op.p.current)
            /\ \A k \in (op.from + 1)..(op.p.current - 1) : ~SyncPoint(Append(tokens, EofTok), k)
    /\ "p" \in DOMAIN parsed =>
            /\ Len(parsed.p.reported) <= Broken(tokens)
            /\ ~parsed.ok => SyncPoint(Append(tokens, EofTok), parsed.p.current)

\* synchronise discarded `= 1 ;` of a broken `var = 1;` and stopped before
\* the statement after it
C24_Witness ==
    /\ op.name = "synchronise"
    /\ op.from >= 1
    /\ op.p.current = op.from + 3
    /\ op.p.current < Len(tokens)
    /\ tokens[op.from].ttype = "Var"
    /\ tokens[op.from + 1].ttype = "Equal"
    /\ tokens[op.p.current].ttype = "Semicolon"

(***************************************************************************)
(* Properties of Parser::assignment (SpecParse).                           *)
(***************************************************************************)
\* the position of the first `=` of toks, 0 when there is none
FirstEqual(toks) ==
    IF \E i \in 1..Len(toks) : toks[i].ttype = "Equal"
    THEN CHOOSE i \in 1..Len(toks) :
            /\ toks[i].ttype = "Equal"
            /\ \A j \in 1..(i - 1) : toks[j].ttype # "Equal"
    ELSE 0

\* the tokens before the first `=` parsed alone, and those after it
LeftOfEqual(toks) == expression(Append(SubSeq(toks, 1, FirstEqual(toks) - 1), EofTok), Parser_new)

RightOfEqual(toks) ==
    expression(Append(SubSeq(toks, FirstEqual(toks) + 1, Len(toks)), EofTok), Parser_new)

\* the tokens before the first `=` are one whole expression and an
\* expression follows the `=`
IsAssignment(toks) ==
    /\ FirstEqual(toks) > 1
    /\ LeftOfEqual(toks).ok
    /\ LeftOfEqual(toks).p.current = FirstEqual(toks) - 1
    /\ RightOfEqual(toks).ok

\* C25: when the expression parsed to the left of `=` is a bare variable the
\* parser yields an Assign node for that name; for any other left-hand
\* expression it fails with the one parse error "Invalid assignment
\* target." whose token is the `=`, not the token the expression starts
\* with; and an Assign node is never made otherwise.
C25_AssignmentTarget ==
    "p" \in DOMAIN parsed =>
        /\ IsAssignment(tokens) =>
              IF LeftOfEqual(tokens).node.type = "Variable"
              THEN /\ parsed.ok
                   /\ parsed.node.type = "Assign"
                   /\ parsed.node.name = tokens[1]
                   /\ tokens[1].ttype = "Identifier"
              ELSE /\ ~parsed.ok
                   /\ parsed.err = pares_error(T("Equal"), "Invalid assignment target.")
                   /\ parsed.p.reported = <<parsed.err>>
                   /\ parsed.p.had_error
                   /\ tokens[1].ttype # "Equal"
        /\ (parsed.ok /\ parsed.node.type = "Assign") =>
              (IsAssignment(tokens) /\ LeftOfEqual(tokens).node.type = "Variable")

\* `( a ) = 2` was rejected at its `=`
C25_Witness ==
    /\ "p" \in DOMAIN parsed
    /\ tokens = TokGroupAssign
    /\ ~parsed.ok
    /\ parsed.err.token = T("Equal")
    /\ parsed.err.message = "Invalid assignment target."

(***************************************************************************)
(* Properties of function values (Spec).                                   *)
(***************************************************************************)
\* C26: two function values are equal exactly when they come from the same
\* execution of a function declaration (the same cell of the heap of
\* callables), or are both the one native clock.  In SrcFunIdentity a copy
\* of f through a variable equals f; after a second declaration with the
\* same name, parameters and body the copy no longer equals f; the two
\* executions of the declaration of h in mk make two values that are not
\* equal; the f a call returns equals f.
C26_FunctionIdentity ==
    (runs = 1 /\ last.prog = ProgramOf(SrcFunIdentity)) =>
        /\ last.res.kind = "Ok"
        /\ last.out = Printed(<<Bool(TRUE), Bool(FALSE), Bool(TRUE), Bool(TRUE), Bool(FALSE),
                                 Bool(TRUE)>>)
        /\ Len(funcs) = 7
        /\ funcs[2] = [funcs[3] EXCEPT !.closure = funcs[2].closure]
        /\ envs[1].values["g"] = Func(2)
        /\ envs[1].values["f"] = Func(3)
        /\ [funcs[6] EXCEPT !.closure = 0] = [funcs[7] EXCEPT !.closure = 0]
        /\ envs[3].values["h"] # envs[4].values["h"]
        /\ binary_op(T("EqualEqual"), envs[3].values["h"], envs[4].values["h"]) = Ok(Bool(FALSE))
        /\ binary_op(T("EqualEqual"), envs[3].values["h"], envs[3].values["h"]) = Ok(Bool(TRUE))

\* the copy of the first f and the second f are two values
C26_Witness ==
    /\ runs = 1
    /\ last.prog = ProgramOf(SrcFunIdentity)
    /\ envs[1].values["g"] # envs[1].values["f"]
    /\ last.out # <<>>

(***************************************************************************)
(* Properties of the distance table and of local variables (SpecProg).     *)
(***************************************************************************)
\* C27: when a program is executed, Interpreter.locals holds the distances
\* of the static pass: an entry for each variable reference and assignment
\* node (by node identity) whose name is declared in an enclosing block or
\* function scope, with the number of scopes between the node and the
\* nearest declaring scope, and no entry for the other nodes; evaluation
\* does not change it.
C27_ResolverDistances ==
    op.name = "resolved" =>
        /\ DOMAIN locals = DOMAIN op.table
        /\ \A id \in DOMAIN op.table : locals[id] = op.table[id]

(***************************************************************************)
(* Properties of local variables in the runs of Lox::run (Spec).           *)
(***************************************************************************)
\* C28: in a block or a function body a reference to a name declared
\* earlier in the block, or to a parameter, reads that local binding even
\* when a global has the same name, and an assignment to it writes the
\* local binding, not the global.  SrcLocals prints 2 and 3 for the block's
\* a, 1 for the global a after the block, and 4 for the parameter, and
\* leaves the global a bound to 1.
C28_LocalsInScope ==
    (runs = 1 /\ last.prog = ProgramOf(SrcLocals)) =>
        /\ last.res.kind = "Ok"
        /\ last.out = Printed(<<Num(2), Num(3), Num(1), Num(4)>>)
        /\ envs[1].values["a"] = Num(1)

(***************************************************************************)
(* Properties of the parser's cursor (SpecProg).                           *)
(***************************************************************************)
\* C29: on a token list that ends with Eof, parse() ends with the cursor
\* not past the Eof and never takes previous() with the cursor at 0; a
\* line of well-formed statements is parsed whole, the loops stopping with
\* the cursor on Eof; each declaration() of the loop of parse moves the
\* cursor forward by at least one token, whether it succeeds or fails, and
\* synchronise never moves it back.
C29_CursorSafety ==
    /\ "p" \in DOMAIN parsed =>
            /\ ~parsed.p.panicked
            /\ parsed.p.current \in 0..Len(tokens)
            /\ parsed.ok => parsed.p.current = Len(tokens)
            /\ Broken(tokens) = 0 => parsed.ok
    /\ op.name = "declaration" =>
            /\ ~op.res.p.panicked
            /\ op.res.p.current \in (op.from + 1)..Len(tokens)
    /\ op.name = "synchronise" =>
            /\ ~op.p.panicked
            /\ op.p.current \in op.from..Len(tokens)

\* the second statement of a line, a block, was parsed by one declaration()
\* that went through the loop of block() and stopped after its `}`
C29_Witness ==
    /\ op.name = "declaration"
    /\ op.from > 0
    /\ tokens[op.from + 1].ttype = "LeftBrace"
    /\ op.res.ok
    /\ op.res.node.type = "Block"
    /\ Len(op.res.node.statements) = 2
    /\ op.res.p.current = op.from + 10
    /\ op.res.p.current < Len(tokens)

(***************************************************************************)
(* Properties of break in a function body (Spec).                          *)
(***************************************************************************)
\* C30: a `break` in a function body outside any loop of that body is a
\* runtime error even when the function is called from inside a loop, and
\* no Break signal leaves the call.  The first call of f in the loop of
\* SrcBreakInCall ends the run with the reported error "Can't break outside
\* of loop".
C30_BreakStaysInCall ==
    (runs = 1 /\ last.prog = ProgramOf(SrcBreakInCall)) =>
        /\ last.res.kind = "RuntimeError"
        /\ last.res.message = "Can't break outside of loop"
        /\ last.diag = <<"Can't break outside of loop">>
        /\ last.out = <<>>

====
